---- MODULE Spec2Model ----
(***************************************************************************)
(* Model of the conflict list query (GET /api/conflicts) of the Global     *)
(* Conflict Data Platform backend: request validation, predicate           *)
(* construction, the paired findMany/count store operations and the        *)
(* pagination block of the response, together with the store writes of     *)
(* the seed script that can take effect while a request is in flight.      *)
(* Further specifications model the statistics, export and per-region      *)
(* handlers over the same table.                                           *)
(***************************************************************************)
EXTENDS Integers, Sequences, FiniteSets, TLC

VARIABLES
  store,       \* the conflict table: a set of records with distinct ids
  nextId,      \* the next id the table hands out
  seedPc,      \* the seed script: "idle", or "cleared" after its deleteMany
  pc,          \* "idle": no list request in flight; "await": Promise.all pending
  query,       \* req.query of the current (or last) list request
  fetched,     \* result of findMany, once it has run
  counted,     \* result of count, once it has run
  fetchStore,  \* history: the table as findMany saw it
  countStore,  \* history: the table as count saw it
  response,    \* the last response sent
  prev,        \* history: the response the client refetched
  acc,         \* history: the pages before this one, concatenated
  now,         \* Date.now() as the handler in flight read it
  ops,         \* the results of the store operations of that handler
  seen,        \* history: the table as each of those operations saw it
  title,       \* a conflict title handed to the CSV writer
  csvField,    \* the Title field the CSV writer made of it
  env,         \* process.env.NODE_ENV
  log,         \* what logger.error has written
  failed,      \* history: the store operations of the request that rejected
  served,      \* history: how many responses the callers have taken
  users,       \* the user table
  calls,       \* the auth and user-administration requests in flight
  client       \* the browser: cookies, localStorage, location, page state

\* the variables the list request alone uses
listVars == <<fetched, counted, fetchStore, countStore, prev, acc>>

\* the variables the list request never touches
readVars == <<now, ops, seen, title, csvField>>

\* the variables no handler of the conflict routes touches unless a store
\* operation fails
moreVars == <<env, log, failed, served, users, calls, client>>

vars == <<store, nextId, seedPc, pc, query, fetched, counted, fetchStore, countStore,
          response, prev, acc, now, ops, seen, title, csvField,
          env, log, failed, served, users, calls, client>>

(***************************************************************************)
(* Bounds of the model.                                                    *)
(***************************************************************************)
MaxId == 2        \* ids the store hands out over one behaviour
MaxPage == 3      \* largest page number a request carries
MaxLimit == 2     \* largest limit a request carries
TicksPerDay == 2  \* instants per calendar day at the model's resolution

(***************************************************************************)
(* Values.  Text is a sequence of one-character strings; an optional       *)
(* value is a sequence of length 0 (absent) or 1 (present).                *)
(***************************************************************************)
Null == -1        \* a fatalities column holding SQL NULL
NaN == -2         \* Number(...) of text that is not a number

None == <<>>
Some(v) == <<v>>
Opt(S) == {None} \cup {Some(v) : v \in S}

Min(a, b) == IF a < b THEN a ELSE b

\* String.prototype.toLowerCase / ILIKE folding on one character
LowerChar(c) ==
  CASE c = "S" -> "s" [] c = "Y" -> "y" [] c = "M" -> "m" [] c = "E" -> "e"
    [] c = "B" -> "b" [] c = "R" -> "r" [] c = "W" -> "w" [] c = "A" -> "a"
    [] OTHER -> c

Lower(s) == [i \in 1..Len(s) |-> LowerChar(s[i])]

\* code-point order of the characters used by the model
Rank(c) ==
  CASE c = "A" -> 1 [] c = "B" -> 2 [] c = "E" -> 3 [] c = "M" -> 4
    [] c = "R" -> 5 [] c = "S" -> 6 [] c = "W" -> 7 [] c = "Y" -> 8
    [] c = "a" -> 9 [] c = "b" -> 10 [] c = "e" -> 11 [] c = "i" -> 12
    [] c = "m" -> 13 [] c = "r" -> 14 [] c = "s" -> 15 [] c = "w" -> 16
    [] c = "y" -> 17 [] OTHER -> 0

\* text comparison of the ORDER BY clause
RECURSIVE TextLess(_, _)
TextLess(a, b) ==
  IF b = <<>> THEN FALSE
  ELSE IF a = <<>> THEN TRUE
  ELSE IF Rank(a[1]) # Rank(b[1]) THEN Rank(a[1]) < Rank(b[1])
  ELSE TextLess(Tail(a), Tail(b))

\* contains + mode: 'insensitive'  (ILIKE '%t%')
Contains(s, t) ==
  \E i \in 0..(Len(s) - Len(t)) :
     Lower(SubSeq(s, i + 1, i + Len(t))) = Lower(t)

(***************************************************************************)
(* Conflict records.                                                       *)
(***************************************************************************)
sampleConflicts ==
  << [title |-> <<"a", "\"", "b">>, latitude |-> 36, longitude |-> 37,
      source |-> <<"A", "C">>,
      country |-> <<"S","y">>, region |-> <<"M","E">>, eventType |-> <<"B","a">>,
     date |-> TicksPerDay, fatalities |-> 5],
    [title |-> <<"a", ",", "b">>, latitude |-> 15, longitude |-> 44,
     source |-> <<"A", "C">>,
     country |-> <<"Y","e">>, region |-> <<"M","E">>, eventType |-> <<"R","i">>,
     date |-> TicksPerDay + 1, fatalities |-> Null],
    [title |-> <<"c">>, latitude |-> 16, longitude |-> 3,
     source |-> <<"A", "C">>,
     country |-> <<"M","a">>, region |-> <<"W","A">>, eventType |-> <<"B","a">>,
     date |-> 2 * TicksPerDay, fatalities |-> 0] >>

WithId(d, i) ==
  [id |-> i, title |-> d.title, country |-> d.country, region |-> d.region,
   latitude |-> d.latitude, longitude |-> d.longitude,
   eventType |-> d.eventType, date |-> d.date, fatalities |-> d.fatalities,
   source |-> d.source]

(***************************************************************************)
(* Raw query strings (req.query) and their validation.                     *)
(***************************************************************************)
Digit(n) ==
  CASE n = 0 -> "0" [] n = 1 -> "1" [] n = 2 -> "2" [] n = 3 -> "3"
    [] n = 4 -> "4" [] n = 5 -> "5" [] n = 6 -> "6" [] n = 7 -> "7"
    [] n = 8 -> "8" [] OTHER -> "9"

DigitValue(c) ==
  CASE c = "0" -> 0 [] c = "1" -> 1 [] c = "2" -> 2 [] c = "3" -> 3
    [] c = "4" -> 4 [] c = "5" -> 5 [] c = "6" -> 6 [] c = "7" -> 7
    [] c = "8" -> 8 [] c = "9" -> 9 [] OTHER -> NaN

\* the decimal text of a non-negative integer, as a query string carries it
RECURSIVE NumText(_)
NumText(n) ==
  IF n < 10 THEN <<Digit(n)>> ELSE Append(NumText(n \div 10), Digit(n % 10))

\* Number(text): the value of a decimal numeral, NaN for any other text
RECURSIVE Number(_)
Number(s) ==
  IF Len(s) = 0 THEN 0
  ELSE LET d == DigitValue(s[Len(s)])
           h == Number(SubSeq(s, 1, Len(s) - 1))
       IN IF d = NaN \/ h = NaN THEN NaN ELSE 10 * h + d

\* the ISO text of calendar day d is written "D" followed by the day's
\* numeral; any other text is no date.  new Date(text) is midnight UTC of
\* that day.
DateText(d) == <<"D">> \o NumText(d)
IsDateText(s) == Len(s) >= 2 /\ s[1] = "D" /\ Number(Tail(s)) # NaN
ParseDate(s) == Number(Tail(s)) * TicksPerDay

SortFields == {"date", "fatalities", "country", "eventType"}
SortOrders == {"asc", "desc"}

\* Joi: number().integer().min(1)
PageValid(o) == o = None \/ (Number(o[1]) # NaN /\ Number(o[1]) >= 1)
\* number().integer().min(1) without max(1000)
LimitValidNoMax(o) == o = None \/ (Number(o[1]) # NaN /\ Number(o[1]) >= 1)

\* Joi: number().integer().min(1).max(1000)
LimitValid(o) ==
  o = None \/ (Number(o[1]) # NaN /\ Number(o[1]) >= 1 /\ Number(o[1]) <= 1000)
\* Joi: string().optional()   (the empty string is not a string() value)
TextValid(o) == o = None \/ Len(o[1]) > 0
\* Joi: date().optional()
DateValid(o) == o = None \/ IsDateText(o[1])
\* string() without valid(...)
SortByValidAny(o) == TRUE

\* Joi: string().valid('date', 'fatalities', 'country', 'eventType')
SortByValid(o) == o = None \/ o[1] \in SortFields
SortOrderValid(o) == o = None \/ o[1] \in SortOrders

\* the keys of the query that conflictQuerySchema rejects
QueryErrors(q) ==
  {k \in {"page", "limit", "country", "region", "eventType", "startDate",
          "endDate", "sortBy", "sortOrder"} :
     CASE k = "page" -> ~PageValid(q.page)
       [] k = "limit" -> ~LimitValid(q.limit)
       [] k = "country" -> ~TextValid(q.country)
       [] k = "region" -> ~TextValid(q.region)
       [] k = "eventType" -> ~TextValid(q.eventType)
       [] k = "startDate" -> ~DateValid(q.startDate)
       [] k = "endDate" -> ~DateValid(q.endDate)
       [] k = "sortBy" -> ~SortByValid(q.sortBy)
       [] OTHER -> ~SortOrderValid(q.sortOrder)}

\* the keys of conflictQuerySchema, in the order the schema lists them
SchemaKeys == <<"page", "limit", "country", "region", "eventType",
                "startDate", "endDate", "sortBy", "sortOrder">>

\* error.details of schema.query.validate(req.query): validate is called
\* with no options, so Joi stops at the first key that fails (abortEarly)
ErrorDetails(q) ==
  IF QueryErrors(q) = {} THEN <<>>
  ELSE LET i == CHOOSE i \in 1..Len(SchemaKeys) :
                  /\ SchemaKeys[i] \in QueryErrors(q)
                  /\ \A j \in 1..(i - 1) : SchemaKeys[j] \notin QueryErrors(q)
       IN <<SchemaKeys[i]>>

(***************************************************************************)
(* The handler's locals.                                                   *)
(***************************************************************************)
\* destructuring default:  const { k = dflt } = req.query
OrDefault(o, dflt) == IF o = None THEN dflt ELSE o[1]

\* a query value is truthy when present and not the empty string
Truthy(o) == o # None /\ Len(o[1]) > 0

PageOf(q) == Number(OrDefault(q.page, NumText(1)))
LimitOf(q) == Number(OrDefault(q.limit, NumText(10)))
SortByOf(q) == OrDefault(q.sortBy, "date")
SortOrderOf(q) == OrDefault(q.sortOrder, "desc")
SkipOf(q) == (PageOf(q) - 1) * LimitOf(q)

\* where.date assigned once per bound, the second assignment replacing the first
BuildWhereDateOverwritten(q) ==
  [country |-> IF Truthy(q.country) THEN Some(q.country[1]) ELSE None,
   region |-> IF Truthy(q.region) THEN Some(q.region[1]) ELSE None,
   eventType |-> IF Truthy(q.eventType) THEN Some(q.eventType[1]) ELSE None,
   gte |-> IF Truthy(q.startDate) /\ ~Truthy(q.endDate)
           THEN Some(ParseDate(q.startDate[1])) ELSE None,
   lte |-> IF Truthy(q.endDate) THEN Some(ParseDate(q.endDate[1])) ELSE None]

\* the where object: one optional clause per column
BuildWhere(q) ==
  [country |-> IF Truthy(q.country) THEN Some(q.country[1]) ELSE None,
   region |-> IF Truthy(q.region) THEN Some(q.region[1]) ELSE None,
   eventType |-> IF Truthy(q.eventType) THEN Some(q.eventType[1]) ELSE None,
   gte |-> IF Truthy(q.startDate) THEN Some(ParseDate(q.startDate[1])) ELSE None,
   lte |-> IF Truthy(q.endDate) THEN Some(ParseDate(q.endDate[1])) ELSE None]
(***************************************************************************)
(* The record store (Prisma over PostgreSQL).                              *)
(***************************************************************************)
\* WHERE without the region clause
MatchesNoRegion(r, w) ==
  /\ (w.country # None => Contains(r.country, w.country[1]))
  /\ (w.eventType # None => Contains(r.eventType, w.eventType[1]))
  /\ (w.gte # None => r.date >= w.gte[1])
  /\ (w.lte # None => r.date <= w.lte[1])

\* WHERE: the conjunction of the clauses present in w
Matches(r, w) ==
  /\ (w.country # None => Contains(r.country, w.country[1]))
  /\ (w.region # None => Contains(r.region, w.region[1]))
  /\ (w.eventType # None => Contains(r.eventType, w.eventType[1]))
  /\ (w.gte # None => r.date >= w.gte[1])
  /\ (w.lte # None => r.date <= w.lte[1])

\* the date clause with lt in place of lte
RowsExclusiveEnd(S, w) ==
  {r \in S : Matches(r, w) /\ (w.lte # None => r.date < w.lte[1])}

Rows(S, w) == {r \in S : Matches(r, w)}

\* a count of the fatalities column, which skips NULL
CountFatalities(S, w) ==
  Cardinality({r \in S : Matches(r, w) /\ r.fatalities # Null})

\* prisma.conflict.count({ where })
Count(S, w) == Cardinality(Rows(S, w))

\* ascending comparison of the ORDER BY column; NULL sorts as the largest
KeyLess(a, b, sortBy) ==
  CASE sortBy = "date" -> a.date < b.date
    [] sortBy = "fatalities" ->
         /\ a.fatalities # Null
         /\ (b.fatalities = Null \/ a.fatalities < b.fatalities)
    [] sortBy = "country" -> TextLess(a.country, b.country)
    [] OTHER -> TextLess(a.eventType, b.eventType)

\* a must come before b in ORDER BY sortBy sortOrder
Before(a, b, sortBy, sortOrder) ==
  IF sortOrder = "asc" THEN KeyLess(a, b, sortBy) ELSE KeyLess(b, a, sortBy)

\* the orders in which the store may return the rows R: ORDER BY names one
\* column, so rows with equal values of it come in any order
Orderings(R, sortBy, sortOrder) ==
  {s \in [1..Cardinality(R) -> R] :
     /\ \A i, j \in 1..Cardinality(R) : i # j => s[i] # s[j]
     /\ \A i, j \in 1..Cardinality(R) :
          i < j => ~Before(s[j], s[i], sortBy, sortOrder)}

\* LIMIT take + 1
SliceOneMore(s, skip, take) == SubSeq(s, skip + 1, Min(skip + take + 1, Len(s)))

\* OFFSET skip LIMIT take
Slice(s, skip, take) == SubSeq(s, skip + 1, Min(skip + take, Len(s)))

\* findMany without skip
FindManyNoSkip(S, w, skip, take, sortBy, sortOrder) ==
  {Slice(s, 0, take) : s \in Orderings(Rows(S, w), sortBy, sortOrder)}

\* prisma.conflict.findMany({ where, skip, take, orderBy }): the possible results
FindMany(S, w, skip, take, sortBy, sortOrder) ==
  {Slice(s, skip, take) : s \in Orderings(Rows(S, w), sortBy, sortOrder)}

\* Math.floor(total / limit)
FloorDiv(total, limit) == total \div limit

\* Math.ceil(total / limit)
CeilDiv(total, limit) ==
  IF total % limit = 0 THEN total \div limit ELSE (total \div limit) + 1

Pagination(q, total) ==
  [page |-> PageOf(q), limit |-> LimitOf(q), total |-> total,
   totalPages |-> CeilDiv(total, LimitOf(q)),
   hasNext |-> PageOf(q) < CeilDiv(total, LimitOf(q)),
   hasPrev |-> PageOf(q) > 1]
(***************************************************************************)
(* Requests the model sends: every combination of filters under the        *)
(* default sort, with the default page and with page 2 of limit 1; and     *)
(* every sort, page and limit without a filter.                            *)
(***************************************************************************)
TextIn == [country : Opt({<<"y">>}), region : Opt({<<"m","e">>}),
           eventType : Opt({<<"B","A">>})]
DateIn == [startDate : Opt({DateText(2)}), endDate : Opt({DateText(1)})]
SortIn == {[sortBy |-> None, sortOrder |-> None]}
            \cup [sortBy : {Some(f) : f \in SortFields},
                  sortOrder : {Some(o) : o \in SortOrders}]
PageIn == {[page |-> None, limit |-> None]}
            \cup [page : {Some(NumText(n)) : n \in 0..MaxPage},
                  limit : {Some(NumText(n)) : n \in 1..MaxLimit}]

MakeQuery(t, d, o, p) ==
  [page |-> p.page, limit |-> p.limit, country |-> t.country,
   region |-> t.region, eventType |-> t.eventType, startDate |-> d.startDate,
   endDate |-> d.endDate, sortBy |-> o.sortBy, sortOrder |-> o.sortOrder]

NoText == [country |-> None, region |-> None, eventType |-> None]
NoDate == [startDate |-> None, endDate |-> None]
NoSort == [sortBy |-> None, sortOrder |-> None]
NoPage == [page |-> None, limit |-> None]
NoQuery == MakeQuery(NoText, NoDate, NoSort, NoPage)

\* page and limit values outside the schema, and the largest limit inside it
BadPageIn ==
  [page : {None, Some(NumText(0)), Some(<<"x">>), Some(<<"1", ".", "5">>)},
   limit : {None, Some(NumText(0)), Some(NumText(1001)), Some(<<"x">>)}]
    \cup {[page |-> Some(NumText(1)), limit |-> Some(NumText(1000))]}

\* sort keys outside the schema
BadSortIn ==
  {[sortBy |-> Some("x"), sortOrder |-> None],
   [sortBy |-> Some("x"), sortOrder |-> Some("asc")],
   [sortBy |-> Some("title"), sortOrder |-> Some("up")],
   [sortBy |-> None, sortOrder |-> Some("up")]}

Queries ==
  {MakeQuery(NoText, NoDate, o, p) :
     o \in {NoSort} \cup BadSortIn, p \in BadPageIn}
  \cup
  {MakeQuery(t, d, o, p) :
     t \in TextIn, d \in DateIn,
     o \in {NoSort},
     p \in {NoPage, [page |-> Some(NumText(2)), limit |-> Some(NumText(1))]}}
  \cup
  {MakeQuery(t, NoDate, o, p) :
     t \in {NoText},
     o \in SortIn, p \in PageIn}

NoResponse == [status |-> 0]
NoPrev == [set |-> FALSE]
NoAcc == [set |-> FALSE]

\* the data arrays createMany is given: the sample records, or some of
\* them, in the order of the array
RECURSIVE Pick(_, _)
Pick(I, n) ==
  IF n = 0 THEN <<>>
  ELSE IF n \in I THEN Append(Pick(I, n - 1), sampleConflicts[n])
  ELSE Pick(I, n - 1)

Batches ==
  {Pick(I, Len(sampleConflicts)) : I \in (SUBSET (1..Len(sampleConflicts))) \ {{}}}

\* a production process that has logged nothing, an empty user table, no
\* auth request in flight, a browser that has not signed in
MoreIdle ==
  /\ env = "production"
  /\ log = <<>>
  /\ failed = {}
  /\ served = 0
  /\ users = {}
  /\ calls = <<>>
  /\ client = <<>>

\* the store operations of the statistics, export and region handlers
OpNames == {"count", "sum", "byRegion", "byEventType", "recent", "findMany",
            "aggregate", "findUnique"}
NoOps == [o \in OpNames |-> None]
NoSeen == [o \in OpNames |-> {}]

(***************************************************************************)
(* Initial state: an empty table, no request yet.                          *)
(***************************************************************************)
Init ==
  /\ MoreIdle
  /\ store = {}
  /\ nextId = 1
  /\ seedPc = "idle"
  /\ pc = "idle"
  /\ query = NoQuery
  /\ fetched = None
  /\ counted = None
  /\ fetchStore = {}
  /\ countStore = {}
  /\ response = NoResponse
  /\ prev = NoPrev
  /\ acc = NoAcc
  /\ now = 0
  /\ ops = NoOps
  /\ seen = NoSeen
  /\ title = <<>>
  /\ csvField = None

(***************************************************************************)
(* The seed script, which no request waits for.                            *)
(***************************************************************************)
\* await prisma.conflict.deleteMany({})
SeedDeleteMany ==
  /\ seedPc = "idle"
  /\ nextId <= MaxId
  /\ store' = {}
  /\ seedPc' = "cleared"
  /\ UNCHANGED <<nextId, pc, query, fetched, counted, fetchStore, countStore,
                 response, prev, acc>>
  /\ UNCHANGED readVars
  /\ UNCHANGED moreVars

\* await prisma.conflict.createMany({ data })
SeedCreateMany ==
  \E b \in Batches :
    /\ seedPc = "cleared"
    /\ nextId + Len(b) - 1 <= MaxId
    /\ store' = store \cup {WithId(b[i], nextId + i - 1) : i \in 1..Len(b)}
    /\ nextId' = nextId + Len(b)
    /\ seedPc' = "idle"
    /\ UNCHANGED <<pc, query, fetched, counted, fetchStore, countStore,
                   response, prev, acc>>
    /\ UNCHANGED readVars
    /\ UNCHANGED moreVars

(***************************************************************************)
(* GET /api/conflicts                                                      *)
(***************************************************************************)
\* a handler that kept the count of the request before
StartKeepCounted(q) ==
  /\ query' = q
  /\ fetched' = None
  /\ counted' = counted
  /\ fetchStore' = {}
  /\ countStore' = {}
  /\ IF QueryErrors(q) # {}
     THEN /\ response' = [status |-> 400, error |-> "Validation failed",
                          details |-> ErrorDetails(q)]
          /\ pc' = "idle"
     ELSE /\ response' = NoResponse
          /\ pc' = "await"

\* validateRequest(conflictQuerySchema), then the handler up to Promise.all
Start(q) ==
  /\ query' = q
  /\ fetched' = None
  /\ counted' = None
  /\ fetchStore' = {}
  /\ countStore' = {}
  /\ IF QueryErrors(q) # {}
     THEN /\ response' = [status |-> 400, error |-> "Validation failed",
                          details |-> ErrorDetails(q)]
          /\ pc' = "idle"
     ELSE /\ response' = NoResponse
          /\ pc' = "await"

\* a caller sends a list request
Request ==
  \E q \in Queries :
    /\ pc = "idle"
    /\ response = NoResponse
    /\ Start(q)
    /\ UNCHANGED <<store, nextId, seedPc, prev, acc>>
    /\ UNCHANGED readVars
    /\ UNCHANGED moreVars

\* the store runs findMany
RunFindMany ==
  /\ pc = "await"
  /\ fetched = None
  /\ \E rows \in FindMany(store, BuildWhere(query), SkipOf(query),
                          LimitOf(query), SortByOf(query), SortOrderOf(query)) :
       fetched' = Some(rows)
  /\ fetchStore' = store
  /\ UNCHANGED <<store, nextId, seedPc, pc, query, counted, countStore,
                 response, prev, acc>>
  /\ UNCHANGED readVars
  /\ UNCHANGED moreVars

\* the store runs count
RunCount ==
  /\ pc = "await"
  /\ counted = None
  /\ counted' = Some(Count(store, BuildWhere(query)))
  /\ countStore' = store
  /\ UNCHANGED <<store, nextId, seedPc, pc, query, fetched, fetchStore,
                 response, prev, acc>>
  /\ UNCHANGED readVars
  /\ UNCHANGED moreVars

\* Promise.all resolved: totalPages and res.json
Respond ==
  /\ pc = "await"
  /\ fetched # None
  /\ counted # None
  /\ response' = [status |-> 200, conflicts |-> fetched[1],
                  pagination |-> Pagination(query, counted[1])]
  /\ pc' = "idle"
  /\ UNCHANGED <<store, nextId, seedPc, query, fetched, counted, fetchStore,
                 countStore, prev, acc>>
  /\ UNCHANGED readVars
  /\ UNCHANGED moreVars

(***************************************************************************)
(* The conflicts page of the frontend, as the caller.                      *)
(***************************************************************************)
\* useQuery runs the same query again
Refetch ==
  /\ pc = "idle"
  /\ response.status = 200
  /\ prev' = [set |-> TRUE, store |-> fetchStore,
              conflicts |-> response.conflicts,
              stale |-> fetchStore # countStore]
  /\ Start(query)
  /\ UNCHANGED <<store, nextId, seedPc, acc>>
  /\ UNCHANGED readVars
  /\ UNCHANGED moreVars

\* the Next button: setPage(page + 1), enabled by hasNext
NextPage ==
  /\ pc = "idle"
  /\ response.status = 200
  /\ response.pagination.hasNext
  /\ PageOf(query) < MaxPage
  /\ acc' = IF fetchStore # countStore THEN NoAcc
            ELSE IF PageOf(query) = 1
                 THEN [set |-> TRUE, store |-> fetchStore,
                       rows |-> response.conflicts]
            ELSE IF acc.set /\ acc.store = fetchStore
                 THEN [acc EXCEPT !.rows = @ \o response.conflicts]
            ELSE NoAcc
  /\ prev' = NoPrev
  /\ Start([query EXCEPT !.page = Some(NumText(PageOf(query) + 1))])
  /\ UNCHANGED <<store, nextId, seedPc>>
  /\ UNCHANGED readVars
  /\ UNCHANGED moreVars

\* the caller has taken the response
Deliver ==
  /\ pc = "idle"
  /\ response # NoResponse
  /\ response' = NoResponse
  /\ query' = NoQuery
  /\ fetched' = None
  /\ counted' = None
  /\ fetchStore' = {}
  /\ countStore' = {}
  /\ prev' = NoPrev
  /\ acc' = NoAcc
  /\ UNCHANGED <<store, nextId, seedPc, pc>>
  /\ UNCHANGED readVars
  /\ UNCHANGED moreVars

Next ==
  \/ SeedDeleteMany
  \/ SeedCreateMany
  \/ Request
  \/ RunFindMany
  \/ RunCount
  \/ Respond
  \/ Refetch
  \/ NextPage
  \/ Deliver

Spec == Init /\ [][Next]_vars
(***************************************************************************)
(* Properties of the list query.                                           *)
(***************************************************************************)
\* a 200 response is on its way to the caller
Done == pc = "idle" /\ response.status = 200

\* the rows a response holds, as a set
Returned == {response.conflicts[i] : i \in 1..Len(response.conflicts)}

\* s lists every record of R exactly once and nothing else
ListsOnce(s, R) ==
  /\ \A i \in 1..Len(s) : s[i] \in R
  /\ \A r \in R : Cardinality({i \in 1..Len(s) : s[i] = r}) = 1

\* C1: the same query, asked twice against the same store content, returns
\* the same records in the same order.
C1_RequeryIsDeterministic ==
  (Done /\ prev.set /\ prev.store = fetchStore)
     => response.conflicts = prev.conflicts

\* C2: the pages 1..totalPages of one filter, sort and limit, read against
\* the same store content, hold every matching record exactly once.
C2_PagesPartitionTheMatches ==
  (/\ Done
   /\ fetchStore = countStore
   /\ PageOf(query) = response.pagination.totalPages
   /\ (PageOf(query) = 1 \/ (acc.set /\ acc.store = fetchStore)))
     => ListsOnce((IF PageOf(query) = 1 THEN <<>> ELSE acc.rows)
                     \o response.conflicts,
                  Rows(fetchStore, BuildWhere(query)))

\* the one ordering of R by sortBy in sortOrder with ties in ascending id
IdTieBreak(R, sortBy, sortOrder) ==
  CHOOSE s \in Orderings(R, sortBy, sortOrder) :
    \A i, j \in 1..Len(s) :
      (i < j /\ ~Before(s[i], s[j], sortBy, sortOrder)) => s[i].id < s[j].id

\* C3: the records are the slice [(page-1)*limit, (page-1)*limit + limit) of
\* the matching records ordered by sortBy in sortOrder, then by id ascending.
C3_SliceOfIdTieBrokenOrder ==
  Done =>
    response.conflicts =
      Slice(IdTieBreak(Rows(fetchStore, BuildWhere(query)),
                       SortByOf(query), SortOrderOf(query)),
            (PageOf(query) - 1) * LimitOf(query), LimitOf(query))

\* C4: a list response holds at most limit records.
C4_AtMostLimitRecords ==
  Done => Len(response.conflicts) <= LimitOf(query)

C4_Witness ==
  /\ Done
  /\ Len(response.conflicts) = LimitOf(query)
  /\ Cardinality(Rows(fetchStore, BuildWhere(query))) > LimitOf(query)

\* C5 as stated: in every list response records.length <= total, whatever
\* happens to the store between the count and the fetch.
C5_LengthAtMostTotalAlways ==
  Done => Len(response.conflicts) <= response.pagination.total

\* C5 amended: records.length <= total in every list response whose count
\* and fetch saw the same store content.
C5_LengthAtMostTotal ==
  (Done /\ fetchStore = countStore)
     => Len(response.conflicts) <= response.pagination.total

C5_Witness ==
  /\ Done
  /\ fetchStore = countStore
  /\ Len(response.conflicts) > 0
  /\ Len(response.conflicts) < response.pagination.total

\* C6: totalPages = ceil(total/limit), hasNext = (page < totalPages) and
\* hasPrev = (page > 1), for the request's page and limit and the counted
\* total; total = 0 gives totalPages = 0 and hasNext = false.
C6_PaginationFields ==
  Done =>
    LET p == response.pagination IN
    /\ p.page = PageOf(query)
    /\ p.limit = LimitOf(query)
    /\ p.total = counted[1]
    /\ p.totalPages * p.limit >= p.total
    /\ (p.totalPages - 1) * p.limit < p.total
    /\ p.hasNext = (p.page < p.totalPages)
    /\ p.hasPrev = (p.page > 1)
    /\ (p.total = 0 => (p.totalPages = 0 /\ ~p.hasNext))

C6_Witness ==
  /\ Done
  /\ response.pagination.total > 0
  /\ response.pagination.total % response.pagination.limit # 0

\* C7 as stated: a valid list query whose page is greater than totalPages is
\* answered 200 with no records, hasNext = false and hasPrev = (page > 1).
C7_BeyondLastPageIsEmptyAlways ==
  /\ (pc = "idle" /\ response # NoResponse /\ QueryErrors(query) = {})
        => response.status = 200
  /\ (Done /\ PageOf(query) > response.pagination.totalPages)
        => /\ response.conflicts = <<>>
           /\ ~response.pagination.hasNext
           /\ response.pagination.hasPrev = (PageOf(query) > 1)

\* C7 amended: such a query is answered 200 with hasNext = false and
\* hasPrev = (page > 1), and with no records when its count and its fetch
\* saw the same store content.
C7_BeyondLastPageIsEmpty ==
  /\ (pc = "idle" /\ response # NoResponse /\ QueryErrors(query) = {})
        => response.status = 200
  /\ (Done /\ PageOf(query) > response.pagination.totalPages)
        => /\ fetchStore = countStore => response.conflicts = <<>>
           /\ ~response.pagination.hasNext
           /\ response.pagination.hasPrev = (PageOf(query) > 1)

C7_Witness ==
  /\ Done
  /\ fetchStore = countStore
  /\ response.pagination.total > 0
  /\ PageOf(query) > response.pagination.totalPages
  /\ response.pagination.hasPrev
\* the filter of the request, read off req.query: every present text filter
\* occurs in the record's column with letter case ignored, and the record's
\* date is within every present bound
Occurs(t, s) ==
  \E i, j \in 0..Len(s) : SubSeq(Lower(s), i + 1, j) = Lower(t)

FilterAdmits(q, r) ==
  /\ (q.country # None => Occurs(q.country[1], r.country))
  /\ (q.region # None => Occurs(q.region[1], r.region))
  /\ (q.eventType # None => Occurs(q.eventType[1], r.eventType))
  /\ (q.startDate # None => r.date >= ParseDate(q.startDate[1]))
  /\ (q.endDate # None => r.date <= ParseDate(q.endDate[1]))

Admitted(q, S) == {r \in S : FilterAdmits(q, r)}

\* what lies past the skipped rows, cut at limit
Expected(n, q) ==
  Min(LimitOf(q),
      IF n > (PageOf(q) - 1) * LimitOf(q)
      THEN n - (PageOf(q) - 1) * LimitOf(q) ELSE 0)

\* C8: the count and the fetch both use the conjunction of exactly the
\* present filters: total is the number of admitted records, the returned
\* records are admitted ones, as many as the page has room for; with no
\* filter present every record is admitted.
C8_PredicateIsConjunctionOfPresentFilters ==
  Done =>
    /\ response.pagination.total = Cardinality(Admitted(query, countStore))
    /\ Returned \subseteq Admitted(query, fetchStore)
    /\ Len(response.conflicts)
         = Expected(Cardinality(Admitted(query, fetchStore)), query)
    /\ (/\ query.country = None /\ query.region = None
        /\ query.eventType = None /\ query.startDate = None
        /\ query.endDate = None)
          => response.pagination.total = Cardinality(countStore)

C8_Witness ==
  /\ Done
  /\ query.country # None
  /\ query.region # None
  /\ query.eventType # None
  /\ Returned # {}
  /\ \E r \in fetchStore : r \notin Returned /\ ~FilterAdmits(query, r)

\* the date bounds alone
InRange(q, r) ==
  /\ (q.startDate # None => ~(r.date < ParseDate(q.startDate[1])))
  /\ (q.endDate # None => ~(ParseDate(q.endDate[1]) < r.date))

\* C9: both date bounds are inclusive and each is optional: among the
\* records the text filters admit, exactly those dated within the present
\* bounds are counted and fetched, a record dated exactly at a bound
\* included.
C9_DateRangeInclusive ==
  Done =>
    LET t == [query EXCEPT !.startDate = None, !.endDate = None] IN
    /\ response.pagination.total
         = Cardinality({r \in Admitted(t, countStore) : InRange(query, r)})
    /\ Returned \subseteq {r \in Admitted(t, fetchStore) : InRange(query, r)}
    /\ Len(response.conflicts)
         = Expected(Cardinality({r \in Admitted(t, fetchStore) :
                                   InRange(query, r)}), query)

C9_Witness ==
  /\ Done
  /\ query.startDate = None
  /\ query.endDate # None
  /\ \E r \in Returned : r.date = ParseDate(query.endDate[1])
  /\ \E r \in fetchStore : r.date > ParseDate(query.endDate[1])

\* C10: a query whose endDate is earlier than its startDate passes
\* validation and is answered 200 with total = 0 and no records, whatever
\* the store holds.
C10_EndBeforeStartIsEmpty ==
  (/\ pc = "idle"
   /\ response # NoResponse
   /\ DateValid(query.startDate) /\ query.startDate # None
   /\ DateValid(query.endDate) /\ query.endDate # None
   /\ ParseDate(query.endDate[1]) < ParseDate(query.startDate[1])
   /\ QueryErrors([query EXCEPT !.startDate = None, !.endDate = None]) = {})
     => /\ response.status = 200
        /\ response.pagination.total = 0
        /\ response.conflicts = <<>>

C10_Witness ==
  /\ Done
  /\ query.startDate # None
  /\ query.endDate # None
  /\ ParseDate(query.endDate[1]) < ParseDate(query.startDate[1])
  /\ query.country = None /\ query.region = None /\ query.eventType = None
  /\ fetchStore # {}
  /\ countStore # {}
  /\ response.pagination.total = 0
(***************************************************************************)
(* Properties of the validation of list requests.                          *)
(***************************************************************************)
\* the request's page is given and is no integer >= 1
PageOutOfRange(q) ==
  q.page # None /\ (Number(q.page[1]) = NaN \/ Number(q.page[1]) < 1)

\* the request's limit is given and is no integer in [1, 1000]
LimitOutOfRange(q) ==
  q.limit # None
    /\ (Number(q.limit[1]) = NaN \/ Number(q.limit[1]) < 1
          \/ Number(q.limit[1]) > 1000)

\* the request was answered 400 and no store operation ran for it
Rejected ==
  /\ pc = "idle"
  /\ response.status = 400
  /\ fetched = None
  /\ counted = None

C12_UnknownSortRejected ==
  ((query.sortBy # None
      /\ query.sortBy[1] \notin {"date", "fatalities", "country", "eventType"})
   \/ (query.sortOrder # None /\ query.sortOrder[1] \notin {"asc", "desc"}))
     => Rejected

C12_Witness ==
  /\ Rejected
  /\ store # {}
  /\ query.sortBy = Some("x")
  /\ query.sortOrder = None
  /\ query.page = None
  /\ query.limit = None

\* C13: a 400 response lists every field of the request that the schema
\* rejects.
C13_EveryOffendingFieldListed ==
  (pc = "idle" /\ response.status = 400)
     => \A k \in QueryErrors(query) :
          \E i \in 1..Len(response.details) : response.details[i] = k

(***************************************************************************)
(* GET /api/conflicts/stats: five store operations started together, each  *)
(* reading the table when the store gets to it, then one response.  The    *)
(* route has no validation middleware and the handler never reads          *)
(* req.query.                                                              *)
(***************************************************************************)
MaxClock == 3

\* 30 * 24 * 60 * 60 * 1000 milliseconds
ThirtyDays == 30 * TicksPerDay

\* Date.now() at the request: before, at and after the day that lies
\* thirty days past the sample dates, and one early instant that has
\* records dated after it
Clock == {TicksPerDay + 1} \cup
         {ThirtyDays + TicksPerDay + k : k \in 0..MaxClock}

\* query strings sent to routes that ignore them
IgnoredQueries ==
  {NoQuery,
   MakeQuery([NoText EXCEPT !.region = Some(<<"W">>)], NoDate, NoSort,
             [page |-> Some(NumText(2)), limit |-> Some(NumText(1))]),
   MakeQuery(NoText, NoDate, NoSort,
             [page |-> Some(NumText(0)), limit |-> None])}

RECURSIVE SumFatalities(_)
SumFatalities(R) ==
  IF R = {} THEN 0
  ELSE LET r == CHOOSE r \in R : TRUE
       IN r.fatalities + SumFatalities(R \ {r})

\* x || 0 on a number or null
OrZeroNot(x) == x
OrZero(x) == IF x = Null \/ x = 0 \/ x = NaN THEN 0 ELSE x

\* a count of the fatalities column over the table, which skips NULL
CountAllFatalities(S) == Cardinality({r \in S : r.fatalities # Null})

\* prisma.conflict.count()
CountAll(S) == Cardinality(S)

\* aggregate({ _sum: { fatalities: true } }): SUM skips NULL and is NULL
\* when no row has a value
AggregateSum(S) ==
  LET R == {r \in S : r.fatalities # Null}
  IN IF R = {} THEN Null ELSE SumFatalities(R)

\* count({ where: { date: { gt } } })
CountAfter(S, t) == Cardinality({r \in S : r.date > t})

\* count({ where: { date: { gte } } })
CountSince(S, t) == Cardinality({r \in S : r.date >= t})

\* the sequences that list each element of G once
Listings(G) ==
  {s \in [1..Cardinality(G) -> G] :
     \A i, j \in 1..Cardinality(G) : i # j => s[i] # s[j]}

\* SELECT DISTINCT col, 1
GroupByDistinct(S, col) ==
  Listings({[f \in {col, "_count"} |-> IF f = col THEN r[col] ELSE 1] :
              r \in S})

\* groupBy({ by: [col], _count: true }): GROUP BY col with COUNT(*), the
\* groups in whatever order the store returns them
GroupBy(S, col) ==
  Listings({[f \in {col, "_count"} |->
               IF f = col THEN k ELSE Cardinality({r \in S : r[col] = k})] :
              k \in {r[col] : r \in S}})

\* .map(item => ({ [col]: item[col], count: item._count }))
MapGroups(g, col) ==
  [i \in 1..Len(g) |->
     [f \in {col, "count"} |-> IF f = col THEN g[i][col] ELSE g[i]["_count"]]]

StatsOps == {"count", "sum", "byRegion", "byEventType", "recent"}

\* the handler is entered: Date.now() is read while the calls are built
StatsRequest ==
  \E q \in IgnoredQueries, t \in Clock :
    /\ pc = "idle"
    /\ response = NoResponse
    /\ query' = q
    /\ now' = t
    /\ ops' = NoOps
    /\ seen' = NoSeen
    /\ pc' = "stats"
    /\ UNCHANGED <<store, nextId, seedPc, response, title, csvField>>
    /\ UNCHANGED listVars
    /\ UNCHANGED moreVars

StatsRun(o, result) ==
  /\ pc = "stats"
  /\ ops[o] = None
  /\ ops' = [ops EXCEPT ![o] = Some(result)]
  /\ seen' = [seen EXCEPT ![o] = store]
  /\ UNCHANGED <<store, nextId, seedPc, pc, query, response, now, title,
                 csvField>>
  /\ UNCHANGED listVars
  /\ UNCHANGED moreVars

StatsCount == StatsRun("count", CountAll(store))

StatsSum == StatsRun("sum", AggregateSum(store))

StatsByRegion == \E g \in GroupBy(store, "region") : StatsRun("byRegion", g)

StatsByEventType ==
  \E g \in GroupBy(store, "eventType") : StatsRun("byEventType", g)

StatsRecent == StatsRun("recent", CountSince(store, now - ThirtyDays))

\* res.json({ ... }) once Promise.all has every result
StatsRespond ==
  /\ pc = "stats"
  /\ \A o \in StatsOps : ops[o] # None
  /\ response' = [status |-> 200,
                  totalConflicts |-> ops["count"][1],
                  totalFatalities |-> OrZero(ops["sum"][1]),
                  recentConflicts |-> ops["recent"][1],
                  conflictsByRegion |-> MapGroups(ops["byRegion"][1], "region"),
                  conflictsByEventType |-> MapGroups(ops["byEventType"][1], "eventType")]
  /\ pc' = "idle"
  /\ UNCHANGED <<store, nextId, seedPc, query, now, ops, seen, title,
                 csvField>>
  /\ UNCHANGED listVars
  /\ UNCHANGED moreVars

\* the caller has taken the response of a read-only route
ReadDeliver ==
  /\ pc = "idle"
  /\ response # NoResponse
  /\ response' = NoResponse
  /\ query' = NoQuery
  /\ ops' = NoOps
  /\ seen' = NoSeen
  /\ now' = 0
  /\ UNCHANGED <<store, nextId, seedPc, pc, title, csvField>>
  /\ UNCHANGED listVars
  /\ UNCHANGED moreVars

NextStats ==
  \/ SeedDeleteMany
  \/ SeedCreateMany
  \/ StatsRequest
  \/ StatsCount
  \/ StatsSum
  \/ StatsByRegion
  \/ StatsByEventType
  \/ StatsRecent
  \/ StatsRespond
  \/ ReadDeliver

SpecStats == Init /\ [][NextStats]_vars


(***************************************************************************)
(* GET /api/conflicts/export: one findMany over the whole table, then the  *)
(* rows as JSON or as CSV text.  The route has no validation middleware    *)
(* and reads only format from req.query.                                   *)
(***************************************************************************)
MaxTitleLen == 3

\* Array.prototype.join
RECURSIVE Join(_, _)
Join(parts, sep) ==
  IF Len(parts) = 0 THEN <<>>
  ELSE IF Len(parts) = 1 THEN parts[1]
  ELSE parts[1] \o sep \o Join(Tail(parts), sep)

\* title.replace(/"/g, '""')
RECURSIVE ReplaceQuotes(_)
ReplaceQuotes(t) ==
  IF t = <<>> THEN <<>>
  ELSE IF t[1] = "\"" THEN <<"\"", "\"">> \o ReplaceQuotes(Tail(t))
  ELSE <<t[1]>> \o ReplaceQuotes(Tail(t))

\* `"${title}"`
EscapeTitleNoDoubling(t) == <<"\"">> \o t \o <<"\"">>

\* `"${title.replace(/"/g, '""')}"`
EscapeTitle(t) == <<"\"">> \o ReplaceQuotes(t) \o <<"\"">>

\* Date.prototype.toISOString: the UTC day, "T", the time of day
ToISOString(t) ==
  DateText(t \div TicksPerDay) \o <<"T">> \o NumText(t % TicksPerDay)

\* text.split(c)[0]
RECURSIVE SplitFirst(_, _)
SplitFirst(text, c) ==
  IF text = <<>> \/ text[1] = c THEN <<>>
  ELSE <<text[1]>> \o SplitFirst(Tail(text), c)

\* a null array element joins as the empty text
FatalitiesFieldBlank(f) == IF f = Null THEN <<>> ELSE NumText(f)

\* conflict.fatalities || 0, as join writes it
FatalitiesField(f) == NumText(OrZero(f))

csvHeaders ==
  Join(<<<<"I", "D">>,
          <<"T", "i", "t", "l", "e">>,
          <<"C", "o", "u", "n", "t", "r", "y">>,
          <<"R", "e", "g", "i", "o", "n">>,
          <<"E", "v", "e", "n", "t", " ", "T", "y", "p", "e">>,
          <<"D", "a", "t", "e">>,
          <<"F", "a", "t", "a", "l", "i", "t", "i", "e", "s">>,
          <<"L", "a", "t", "i", "t", "u", "d", "e">>,
          <<"L", "o", "n", "g", "i", "t", "u", "d", "e">>,
          <<"S", "o", "u", "r", "c", "e">>>>, <<",">>)

csvRow(conflict) ==
  Join(<<NumText(conflict.id),
         EscapeTitle(conflict.title),
         conflict.country,
         conflict.region,
         conflict.eventType,
         SplitFirst(ToISOString(conflict.date), "T"),
         FatalitiesField(conflict.fatalities),
         NumText(conflict.latitude),
         NumText(conflict.longitude),
         conflict.source>>, <<",">>)

csvRows(conflicts) ==
  Join([i \in 1..Len(conflicts) |-> csvRow(conflicts[i])], <<"\n">>)

csvContent(conflicts) == Join(<<csvHeaders, csvRows(conflicts)>>, <<"\n">>)

\* findMany({ orderBy: { date: 'asc' } })
ExportFindManyAsc(S) == Orderings(S, "date", "asc")

\* findMany({ orderBy: { date: 'desc' } }): the possible results
ExportFindMany(S) == Orderings(S, "date", "desc")

Formats == {None, Some("json"), Some("csv"), Some("xml")}

\* const { format = 'json' } = req.query
FormatOf(q) == OrDefault(q.format, "json")

ExportRequest ==
  \E q \in IgnoredQueries, f \in Formats :
    /\ pc = "idle"
    /\ response = NoResponse
    /\ query' = [format |-> f] @@ q
    /\ ops' = NoOps
    /\ seen' = NoSeen
    /\ pc' = "export"
    /\ UNCHANGED <<store, nextId, seedPc, response, now, title, csvField>>
    /\ UNCHANGED listVars
    /\ UNCHANGED moreVars

\* const conflicts = await prisma.conflict.findMany(...)
ExportRun ==
  \E conflicts \in ExportFindMany(store) :
    /\ pc = "export"
    /\ ops["findMany"] = None
    /\ ops' = [ops EXCEPT !["findMany"] = Some(conflicts)]
    /\ seen' = [seen EXCEPT !["findMany"] = store]
    /\ UNCHANGED <<store, nextId, seedPc, pc, query, response, now, title,
                   csvField>>
    /\ UNCHANGED listVars
    /\ UNCHANGED moreVars

\* res.send(csvContent) or res.json({ exportDate, totalRecords, data })
ExportRespond ==
  \E t \in Clock :
    /\ pc = "export"
    /\ ops["findMany"] # None
    /\ now' = t
    /\ response' =
         LET conflicts == ops["findMany"][1]
         IN IF FormatOf(query) = "csv"
            THEN [status |-> 200, contentType |-> "text/csv",
                  body |-> csvContent(conflicts)]
            ELSE [status |-> 200, contentType |-> "application/json",
                  exportDate |-> ToISOString(t),
                  totalRecords |-> Len(conflicts),
                  data |-> conflicts]
    /\ pc' = "idle"
    /\ UNCHANGED <<store, nextId, seedPc, query, ops, seen, title, csvField>>
    /\ UNCHANGED listVars
    /\ UNCHANGED moreVars

NextExport ==
  \/ SeedDeleteMany
  \/ SeedCreateMany
  \/ ExportRequest
  \/ ExportRun
  \/ ExportRespond
  \/ ReadDeliver

SpecExport == Init /\ [][NextExport]_vars

(***************************************************************************)
(* The Title field of a CSV row, on titles of every shape.                 *)
(***************************************************************************)
TitleChars == {"a", "b", ",", "\""}

Titles == UNION {[1..n -> TitleChars] : n \in 0..MaxTitleLen}

InitCsv ==
  /\ MoreIdle
  /\ title \in Titles
  /\ csvField = None
  /\ store = {}
  /\ nextId = 1
  /\ seedPc = "idle"
  /\ pc = "idle"
  /\ query = NoQuery
  /\ fetched = None
  /\ counted = None
  /\ fetchStore = {}
  /\ countStore = {}
  /\ response = NoResponse
  /\ prev = NoPrev
  /\ acc = NoAcc
  /\ now = 0
  /\ ops = NoOps
  /\ seen = NoSeen

\* the second element of a row's array is computed
EscapeCsv ==
  /\ csvField = None
  /\ csvField' = Some(EscapeTitle(title))
  /\ UNCHANGED <<store, nextId, seedPc, pc, query, response, now, ops, seen,
                 title>>
  /\ UNCHANGED listVars
  /\ UNCHANGED moreVars

NextCsv == EscapeCsv

SpecCsv == InitCsv /\ [][NextCsv]_vars

(***************************************************************************)
(* GET /api/regions/:region/conflicts: findMany, then aggregate, over the  *)
(* records whose region contains the path parameter.                       *)
(***************************************************************************)
MaxRows == 3

FatalitiesIn == {Null, 0, 15, 23, 27}

RegionsIn == {<<"M", "E">>, <<"W", "A">>}

\* the i-th record of a table that one createMany filled
RowIn(i, region, fatalities) ==
  [WithId(sampleConflicts[1], i) EXCEPT
     !.region = region, !.fatalities = fatalities, !.date = i * TicksPerDay]

Tables ==
  UNION {{{RowIn(i, g[i], f[i]) : i \in 1..n} :
            g \in [1..n -> RegionsIn], f \in [1..n -> FatalitiesIn]} :
         n \in 0..MaxRows}

\* req.params.region
RegionParams == {<<"m", "e">>, <<"W">>, <<"Z">>}

InitRegion ==
  /\ MoreIdle
  /\ store \in Tables
  /\ nextId = Cardinality(store) + 1
  /\ seedPc = "idle"
  /\ pc = "idle"
  /\ query = NoQuery
  /\ fetched = None
  /\ counted = None
  /\ fetchStore = {}
  /\ countStore = {}
  /\ response = NoResponse
  /\ prev = NoPrev
  /\ acc = NoAcc
  /\ now = 0
  /\ ops = NoOps
  /\ seen = NoSeen
  /\ title = <<>>
  /\ csvField = None

\* where: { region: { contains: region, mode: 'insensitive' } }
RegionWhere(region) ==
  [country |-> None, region |-> Some(region), eventType |-> None,
   gte |-> None, lte |-> None]

\* Math.floor of a fraction
MathFloor(x) == x.num \div x.den

\* Math.round of a non-negative fraction: the nearest integer, halves up
MathRound(x) == (2 * x.num + x.den) \div (2 * x.den)

\* the null average, written as a fraction with no denominator
NullFraction == [num |-> 0, den |-> 0]

\* x || 0 on a fraction or null
FractionOrZero(x) ==
  IF x = NullFraction \/ x.num = 0 THEN [num |-> 0, den |-> 1] ELSE x

\* aggregate({ where, _count: true, _sum, _avg }): COUNT(*), and SUM and AVG
\* over the rows that have a value, both NULL when none has
Aggregate(S, w) ==
  LET R == Rows(S, w)
      V == {r \in R : r.fatalities # Null}
  IN [_count |-> Cardinality(R),
      _sum |-> [fatalities |-> IF V = {} THEN Null ELSE SumFatalities(V)],
      _avg |-> [fatalities |->
                  IF V = {} THEN NullFraction
                  ELSE [num |-> SumFatalities(V), den |-> Cardinality(V)]]]

RegionRequest ==
  \E region \in RegionParams :
    /\ pc = "idle"
    /\ response = NoResponse
    /\ query' = [params |-> [region |-> region]]
    /\ ops' = NoOps
    /\ seen' = NoSeen
    /\ pc' = "region"
    /\ UNCHANGED <<store, nextId, seedPc, response, now, title, csvField>>
    /\ UNCHANGED listVars
    /\ UNCHANGED moreVars

\* const conflicts = await prisma.conflict.findMany(...)
RegionFindMany ==
  /\ pc = "region"
  /\ ops["findMany"] = None
  /\ \E conflicts \in
         Orderings(Rows(store, RegionWhere(query.params.region)),
                   "date", "desc") :
       ops' = [ops EXCEPT !["findMany"] = Some(conflicts)]
  /\ seen' = [seen EXCEPT !["findMany"] = store]
  /\ UNCHANGED <<store, nextId, seedPc, pc, query, response, now, title,
                 csvField>>
  /\ UNCHANGED listVars
  /\ UNCHANGED moreVars

\* const stats = await prisma.conflict.aggregate(...)
RegionAggregate ==
  /\ pc = "region"
  /\ ops["findMany"] # None
  /\ ops["aggregate"] = None
  /\ ops' = [ops EXCEPT
               !["aggregate"] =
                 Some(Aggregate(store, RegionWhere(query.params.region)))]
  /\ seen' = [seen EXCEPT !["aggregate"] = store]
  /\ UNCHANGED <<store, nextId, seedPc, pc, query, response, now, title,
                 csvField>>
  /\ UNCHANGED listVars
  /\ UNCHANGED moreVars

\* res.json({ region, conflicts, stats })
RegionRespond ==
  /\ pc = "region"
  /\ ops["aggregate"] # None
  /\ response' =
       LET stats == ops["aggregate"][1]
       IN [status |-> 200,
           region |-> query.params.region,
           conflicts |-> ops["findMany"][1],
           stats |->
             [totalConflicts |-> stats["_count"],
              totalFatalities |-> OrZero(stats["_sum"].fatalities),
              averageFatalities |->
                MathRound(FractionOrZero(stats["_avg"].fatalities))]]
  /\ pc' = "idle"
  /\ UNCHANGED <<store, nextId, seedPc, query, now, ops, seen, title,
                 csvField>>
  /\ UNCHANGED listVars
  /\ UNCHANGED moreVars

\* the seed script empties the table
RegionDeleteMany ==
  /\ store # {}
  /\ store' = {}
  /\ UNCHANGED <<nextId, seedPc, pc, query, response, now, ops, seen, title,
                 csvField>>
  /\ UNCHANGED listVars
  /\ UNCHANGED moreVars

NextRegion ==
  \/ RegionRequest
  \/ RegionFindMany
  \/ RegionAggregate
  \/ RegionRespond
  \/ ReadDeliver
  \/ RegionDeleteMany

SpecRegion == InitRegion /\ [][NextRegion]_vars

(***************************************************************************)
(* A store operation that rejects.  The rejection reaches asyncHandler's   *)
(* catch(next) (for list and stats through Promise.all, which rejects with *)
(* the first rejection), and next(error) runs errorHandler; no store       *)
(* operation can take effect in between.                                   *)
(***************************************************************************)
Envs == {"development", "production", "test"}

\* the errors the store client throws: none carries a statusCode
StoreErrors ==
  {[statusCode |-> None, message |-> "Can't reach database server",
    stack |-> "PrismaClientInitializationError at findMany"],
   [statusCode |-> None, message |-> "relation Conflict does not exist",
    stack |-> "PrismaClientKnownRequestError at count"]}

\* the tables the seed script leaves behind
SeededTables ==
  {{}} \cup {{WithId(b[i], i) : i \in 1..Len(b)} :
               b \in {c \in Batches : Len(c) <= MaxId}}

InitFail ==
  /\ env \in Envs
  /\ store \in SeededTables
  /\ nextId = Cardinality(store) + 1
  /\ log = <<>>
  /\ failed = {}
  /\ served = 0
  /\ users = {}
  /\ calls = <<>>
  /\ client = <<>>
  /\ seedPc = "idle"
  /\ pc = "idle"
  /\ query = NoQuery
  /\ fetched = None
  /\ counted = None
  /\ fetchStore = {}
  /\ countStore = {}
  /\ response = NoResponse
  /\ prev = NoPrev
  /\ acc = NoAcc
  /\ now = 0
  /\ ops = NoOps
  /\ seen = NoSeen
  /\ title = <<>>
  /\ csvField = None

\* message: error.message, whatever the status
MessageRaw(statusCode, message) == message

\* message: statusCode === 500 ? 'Internal Server Error' : message
MessageOf(statusCode, message) ==
  IF statusCode = 500 THEN "Internal Server Error" ELSE message

\* logger.error({ error: error.message, stack: error.stack, ... })
LogEntry(error) == [error |-> error.message, stack |-> error.stack]

\* a catch block that answers with an empty result
ErrorSwallowed(error, nodeEnv) ==
  [status |-> 200, conflicts |-> <<>>, pagination |-> Pagination(NoQuery, 0)]

\* res.status(statusCode).json({ status, statusCode, message, ...stack })
ErrorResponse(error, nodeEnv) ==
  LET statusCode == OrDefault(error.statusCode, 500)
      body == [status |-> "error", statusCode |-> statusCode,
               message |-> MessageOf(statusCode, error.message)]
  IN [status |-> statusCode,
      body |-> IF nodeEnv = "development"
               THEN [stack |-> error.stack] @@ body
               ELSE body]

\* the store operations of the request in flight that have not settled
Pending(route) ==
  CASE route = "await" ->
         {o \in {"findMany"} : fetched = None} \cup
         {o \in {"count"} : counted = None}
    [] route = "stats" -> {o \in StatsOps : ops[o] = None}
    [] route = "export" -> {o \in {"findMany"} : ops[o] = None}
    [] OTHER -> {}

\* one pending store operation rejects: catch(next), errorHandler
StoreFails(route) ==
  \E o \in Pending(route), error \in StoreErrors :
    /\ pc = route
    /\ response = NoResponse
    /\ failed' = failed \cup {o}
    /\ log' = Append(log, LogEntry(error))
    /\ response' = ErrorResponse(error, env)
    /\ pc' = "idle"
    /\ UNCHANGED <<store, nextId, seedPc, query, env, served, users, calls,
                   client>>
    /\ UNCHANGED listVars
    /\ UNCHANGED readVars

ListFails == StoreFails("await")

StatsFails == StoreFails("stats")

ExportFails == StoreFails("export")

NextFail ==
  \/ Request
  \/ RunFindMany
  \/ RunCount
  \/ Respond
  \/ ListFails
  \/ StatsRequest
  \/ StatsCount
  \/ StatsSum
  \/ StatsByRegion
  \/ StatsByEventType
  \/ StatsRecent
  \/ StatsRespond
  \/ StatsFails
  \/ ExportRequest
  \/ ExportRun
  \/ ExportRespond
  \/ ExportFails

SpecFail == InitFail /\ [][NextFail]_vars

(***************************************************************************)
(* GET /api/conflicts/:id, and the read-only routes one after another on   *)
(* a table nothing else writes.                                            *)
(***************************************************************************)
MaxServed == 2

\* req.params.id: the ids the table has handed out and one it has not
IdParams == 1..(MaxId + 1)

\* findFirst(): some record, or null
FindFirst(S, id) == IF S = {} THEN {None} ELSE {Some(r) : r \in S}

\* prisma.conflict.findUnique({ where: { id } }): the record, or null
FindUnique(S, id) ==
  IF \E r \in S : r.id = id THEN {Some(r) : r \in {x \in S : x.id = id}}
  ELSE {None}

ByIdRequest ==
  \E id \in IdParams :
    /\ pc = "idle"
    /\ response = NoResponse
    /\ query' = [params |-> [id |-> id]]
    /\ ops' = NoOps
    /\ seen' = NoSeen
    /\ pc' = "byId"
    /\ UNCHANGED <<store, nextId, seedPc, response, now, title, csvField>>
    /\ UNCHANGED listVars
    /\ UNCHANGED moreVars

\* const conflict = await prisma.conflict.findUnique(...)
ByIdRun ==
  /\ pc = "byId"
  /\ ops["findUnique"] = None
  /\ \E conflict \in FindUnique(store, query.params.id) :
       ops' = [ops EXCEPT !["findUnique"] = Some(conflict)]
  /\ seen' = [seen EXCEPT !["findUnique"] = store]
  /\ UNCHANGED <<store, nextId, seedPc, pc, query, response, now, title,
                 csvField>>
  /\ UNCHANGED listVars
  /\ UNCHANGED moreVars

\* res.status(404).json(...) or res.json(conflict)
ByIdRespond ==
  /\ pc = "byId"
  /\ ops["findUnique"] # None
  /\ response' = IF ops["findUnique"][1] = None
                 THEN [status |-> 404, error |-> "Conflict not found"]
                 ELSE [status |-> 200, conflict |-> ops["findUnique"][1][1]]
  /\ pc' = "idle"
  /\ UNCHANGED <<store, nextId, seedPc, query, now, ops, seen, title,
                 csvField>>
  /\ UNCHANGED listVars
  /\ UNCHANGED moreVars

InitReads ==
  /\ store \in SeededTables
  /\ nextId = Cardinality(store) + 1
  /\ env = "production"
  /\ log = <<>>
  /\ failed = {}
  /\ served = 0
  /\ users = {}
  /\ calls = <<>>
  /\ client = <<>>
  /\ seedPc = "idle"
  /\ pc = "idle"
  /\ query = NoQuery
  /\ fetched = None
  /\ counted = None
  /\ fetchStore = {}
  /\ countStore = {}
  /\ response = NoResponse
  /\ prev = NoPrev
  /\ acc = NoAcc
  /\ now = 0
  /\ ops = NoOps
  /\ seen = NoSeen
  /\ title = <<>>
  /\ csvField = None

\* the caller has taken the response; the handler's locals are gone
ReadsTaken ==
  /\ pc = "idle"
  /\ response # NoResponse
  /\ served < MaxServed
  /\ served' = served + 1
  /\ response' = NoResponse
  /\ query' = NoQuery
  /\ fetched' = None
  /\ counted' = None
  /\ fetchStore' = {}
  /\ countStore' = {}
  /\ now' = 0
  /\ ops' = NoOps
  /\ seen' = NoSeen
  /\ UNCHANGED <<store, nextId, seedPc, pc, prev, acc, title, csvField, env,
                 log, failed, users, calls, client>>

NextReads ==
  \/ Request
  \/ RunFindMany
  \/ RunCount
  \/ Respond
  \/ StatsRequest
  \/ StatsCount
  \/ StatsSum
  \/ StatsByRegion
  \/ StatsByEventType
  \/ StatsRecent
  \/ StatsRespond
  \/ ExportRequest
  \/ ExportRun
  \/ ExportRespond
  \/ RegionRequest
  \/ RegionFindMany
  \/ RegionAggregate
  \/ RegionRespond
  \/ ByIdRequest
  \/ ByIdRun
  \/ ByIdRespond
  \/ ReadsTaken

SpecReads == InitReads /\ [][NextReads]_vars

(***************************************************************************)
(* POST /api/auth/register, by callers whose requests interleave at the    *)
(* awaits of the handler.                                                  *)
(***************************************************************************)
MaxCallers == 2

Callers == 1..MaxCallers

\* every variable of the conflict routes at rest, on an empty table
HandlersIdle ==
  /\ store = {}
  /\ nextId = 1
  /\ seedPc = "idle"
  /\ pc = "idle"
  /\ query = NoQuery
  /\ fetched = None
  /\ counted = None
  /\ fetchStore = {}
  /\ countStore = {}
  /\ response = NoResponse
  /\ prev = NoPrev
  /\ acc = NoAcc
  /\ now = 0
  /\ ops = NoOps
  /\ seen = NoSeen
  /\ title = <<>>
  /\ csvField = None

handlerVars == <<store, nextId, seedPc, pc, query, fetched, counted,
                 fetchStore, countStore, response, prev, acc, now, ops, seen,
                 title, csvField>>

Emails == {<<"a", "@", "x">>, <<"b", "@", "x">>}

\* req.body of the auth routes
AuthBodies ==
  [email : Emails \cup {<<"a", "x">>},
   password : {<<"s", "e", "c", "r", "e", "t">>, <<"l", "e", "t", "m", "e", "i", "n">>,
               <<"p", "w">>}]

\* Joi: string().email()
EmailValid(t) == \E i \in 2..(Len(t) - 1) : t[i] = "@"

\* registerSchema: the first key in schema order that fails, if any
RegisterErrors(body) ==
  IF ~EmailValid(body.email) THEN <<"email">>
  ELSE IF Len(body.password) < 6 THEN <<"password">>
  ELSE <<>>

\* bcrypt.hash(password, 12)
Hash(password) == <<"$", "2", "a", "$">> \o password

\* bcrypt.compare(password, hash)
Compare(password, hash) == hash = Hash(password)

\* jwt.sign(payload, JWT_SECRET, { expiresIn: '24h' })
generateToken(payload) == [payload |-> payload, signed |-> "JWT_SECRET"]

\* select: { id, email, role, createdAt }
Selected(user) == [id |-> user.id, email |-> user.email, role |-> user.role]

\* prisma.user.findUnique({ where: { email } }): the user, or null
FindUserByEmail(U, email) ==
  IF \E u \in U : u.email = email THEN Some(CHOOSE u \in U : u.email = email)
  ELSE None

\* the unique index on email rejects the insert
UniqueViolation ==
  [statusCode |-> None,
   message |-> "Unique constraint failed on the fields: (email)",
   stack |-> "PrismaClientKnownRequestError at create"]

NoCall == [pc |-> "idle", response |-> NoResponse]

UsersIn ==
  {{},
   {[id |-> 1, email |-> <<"b", "@", "x">>,
     password |-> Hash(<<"s", "e", "c", "r", "e", "t">>), role |-> "USER"]}}

InitRegister ==
  /\ HandlersIdle
  /\ env = "production"
  /\ log = <<>>
  /\ failed = {}
  /\ served = 0
  /\ users \in UsersIn
  /\ calls = [c \in Callers |-> NoCall]
  /\ client = <<>>

\* validateRequest(registerSchema); the handler starts
RegisterRequest(c) ==
  \E body \in AuthBodies :
    /\ calls[c].pc = "idle"
    /\ calls[c].response = NoResponse
    /\ calls' = [calls EXCEPT ![c] =
         IF RegisterErrors(body) # <<>>
         THEN [pc |-> "idle", body |-> body,
               response |-> [status |-> 400, error |-> "Validation failed",
                             details |-> RegisterErrors(body)]]
         ELSE [pc |-> "findUnique", body |-> body, response |-> NoResponse]]
    /\ UNCHANGED <<env, log, failed, served, users, client>>
    /\ UNCHANGED handlerVars

\* const existingUser = await prisma.user.findUnique(...); 409 if found
RegisterFind(c) ==
  /\ calls[c].pc = "findUnique"
  /\ calls' = [calls EXCEPT ![c] =
       IF FindUserByEmail(users, calls[c].body.email) # None
       THEN [@ EXCEPT !.pc = "idle",
                      !.response =
                        [status |-> 409,
                         error |-> "User with this email already exists"]]
       ELSE [@ EXCEPT !.pc = "create"]]
  /\ UNCHANGED <<env, log, failed, served, users, client>>
  /\ UNCHANGED handlerVars

\* await bcrypt.hash; await prisma.user.create(...); 201, or the rejection
\* of create handed to errorHandler
RegisterCreate(c) ==
  /\ calls[c].pc = "create"
  /\ IF \E u \in users : u.email = calls[c].body.email
     THEN /\ users' = users
          /\ log' = Append(log, LogEntry(UniqueViolation))
          /\ calls' = [calls EXCEPT ![c] =
               [@ EXCEPT !.pc = "idle",
                         !.response = ErrorResponse(UniqueViolation, env)]]
     ELSE LET user == [id |-> Cardinality(users) + 1,
                       email |-> calls[c].body.email,
                       password |-> Hash(calls[c].body.password),
                       role |-> "USER"]
          IN /\ users' = users \cup {user}
             /\ log' = log
             /\ calls' = [calls EXCEPT ![c] =
                  [@ EXCEPT !.pc = "idle",
                            !.response =
                              [status |-> 201,
                               message |-> "User registered successfully",
                               token |-> generateToken(
                                 [userId |-> user.id, email |-> user.email,
                                  role |-> user.role]),
                               user |-> Selected(user)]]]
  /\ UNCHANGED <<env, failed, served, client>>
  /\ UNCHANGED handlerVars

NextRegister ==
  \E c \in Callers :
    \/ RegisterRequest(c)
    \/ RegisterFind(c)
    \/ RegisterCreate(c)

SpecRegister == InitRegister /\ [][NextRegister]_vars

(***************************************************************************)
(* PUT /api/users/:id/role and POST /api/auth/login, by callers whose      *)
(* requests interleave at the awaits of the handlers. The role requests    *)
(* are those that passed authenticateToken and requireRole(['ADMIN']).     *)
(***************************************************************************)
Roles == {"USER", "ADMIN"}

\* req.body.role: absent, or a string
RoleInputs == {None, Some("USER"), Some("ADMIN"), Some("admin"), Some("GUEST")}

\* req.params.id: the id of a user, or of none
UserIds == 1..3

\* a check that takes any string for a role
RoleValidAnyString(role) == role # None

\* ['USER', 'ADMIN'].includes(role)
RoleValid(role) == role # None /\ role[1] \in Roles

\* prisma.user.findUnique({ where: { id } }): the user, or null
FindUserById(U, id) ==
  IF \E u \in U : u.id = id THEN Some(CHOOSE u \in U : u.id = id) ELSE None

\* prisma.user.update({ where: { id }, data: { role } })
UpdateRole(U, id, role) ==
  {IF u.id = id THEN [u EXCEPT !.role = role] ELSE u : u \in U}

\* loginSchema: the first key in schema order that fails, if any
LoginErrors(body) ==
  IF ~EmailValid(body.email) THEN <<"email">>
  ELSE IF Len(body.password) = 0 THEN <<"password">>
  ELSE <<>>

\* a login that tells an unknown email from a wrong password
LoginRejectedTelling(why) ==
  [status |-> 401,
   error |-> IF why = "email" THEN "User not found" ELSE "Invalid credentials"]

\* return res.status(401).json({ error: 'Invalid credentials' }), for an
\* unknown email and for a wrong password
LoginRejected(why) == [status |-> 401, error |-> "Invalid credentials"]

\* the user tables the routes start from: one or two users, each a USER or
\* an ADMIN
AccountTables ==
  {{[id |-> 1, email |-> <<"a", "@", "x">>,
     password |-> Hash(<<"s", "e", "c", "r", "e", "t">>), role |-> r]} :
     r \in Roles}
  \cup
  {{[id |-> 1, email |-> <<"a", "@", "x">>,
     password |-> Hash(<<"s", "e", "c", "r", "e", "t">>), role |-> r[1]],
    [id |-> 2, email |-> <<"b", "@", "x">>,
     password |-> Hash(<<"l", "e", "t", "m", "e", "i", "n">>), role |-> r[2]]} :
     r \in Roles \X Roles}

InitAccounts ==
  /\ HandlersIdle
  /\ env = "production"
  /\ log = <<>>
  /\ failed = {}
  /\ served = 0
  /\ users \in AccountTables
  /\ calls = [c \in Callers |-> NoCall]
  /\ client = <<>>

\* the handler of a role update up to its first await
RoleRequest(c) ==
  \E id \in UserIds, role \in RoleInputs :
    /\ calls[c].pc = "idle"
    /\ calls[c].response = NoResponse
    /\ calls' = [calls EXCEPT ![c] =
         IF ~RoleValid(role)
         THEN [pc |-> "idle", kind |-> "role", id |-> id, role |-> role,
               user |-> None,
               response |-> [status |-> 400,
                             error |-> "Invalid role. Must be USER or ADMIN"]]
         ELSE [pc |-> "findUnique", kind |-> "role", id |-> id, role |-> role,
               user |-> None, response |-> NoResponse]]
    /\ UNCHANGED <<env, log, failed, served, users, client>>
    /\ UNCHANGED handlerVars

\* const user = await prisma.user.findUnique(...); 404 if there is none
RoleFind(c) ==
  /\ calls[c].pc = "findUnique"
  /\ calls[c].kind = "role"
  /\ calls' = [calls EXCEPT ![c] =
       IF FindUserById(users, calls[c].id) = None
       THEN [@ EXCEPT !.pc = "idle",
                      !.response = [status |-> 404,
                                    error |-> "User not found"]]
       ELSE [@ EXCEPT !.pc = "update",
                      !.user = FindUserById(users, calls[c].id)]]
  /\ UNCHANGED <<env, log, failed, served, users, client>>
  /\ UNCHANGED handlerVars

\* await prisma.user.update(...); res.json
RoleUpdate(c) ==
  /\ calls[c].pc = "update"
  /\ users' = UpdateRole(users, calls[c].id, calls[c].role[1])
  /\ calls' = [calls EXCEPT ![c] =
       [@ EXCEPT !.pc = "idle",
                 !.response =
                   [status |-> 200,
                    message |-> "User role updated successfully",
                    user |-> Selected(CHOOSE u \in users' :
                                        u.id = calls[c].id)]]]
  /\ UNCHANGED <<env, log, failed, served, client>>
  /\ UNCHANGED handlerVars

\* validateRequest(loginSchema); the handler starts
LoginRequest(c) ==
  \E body \in AuthBodies :
    /\ calls[c].pc = "idle"
    /\ calls[c].response = NoResponse
    /\ calls' = [calls EXCEPT ![c] =
         IF LoginErrors(body) # <<>>
         THEN [pc |-> "idle", kind |-> "login", body |-> body, user |-> None,
               response |-> [status |-> 400, error |-> "Validation failed",
                             details |-> LoginErrors(body)]]
         ELSE [pc |-> "findUnique", kind |-> "login", body |-> body,
               user |-> None, response |-> NoResponse]]
    /\ UNCHANGED <<env, log, failed, served, users, client>>
    /\ UNCHANGED handlerVars

\* const user = await prisma.user.findUnique({ where: { email } }); 401 if
\* there is none
LoginFind(c) ==
  /\ calls[c].pc = "findUnique"
  /\ calls[c].kind = "login"
  /\ calls' = [calls EXCEPT ![c] =
       IF FindUserByEmail(users, calls[c].body.email) = None
       THEN [@ EXCEPT !.pc = "idle", !.response = LoginRejected("email")]
       ELSE [@ EXCEPT !.pc = "compare",
                      !.user = FindUserByEmail(users, calls[c].body.email)]]
  /\ UNCHANGED <<env, log, failed, served, users, client>>
  /\ UNCHANGED handlerVars

\* await bcrypt.compare; 401 if it fails, else the token and the user
LoginCompare(c) ==
  /\ calls[c].pc = "compare"
  /\ calls' = [calls EXCEPT ![c] =
       IF ~Compare(calls[c].body.password, calls[c].user[1].password)
       THEN [@ EXCEPT !.pc = "idle", !.response = LoginRejected("password")]
       ELSE [@ EXCEPT !.pc = "idle",
                      !.response =
                        [status |-> 200, message |-> "Login successful",
                         token |-> generateToken(
                           [userId |-> calls[c].user[1].id,
                            email |-> calls[c].user[1].email,
                            role |-> calls[c].user[1].role]),
                         user |-> Selected(calls[c].user[1])]]]
  /\ UNCHANGED <<env, log, failed, served, users, client>>
  /\ UNCHANGED handlerVars

\* the caller has taken the response and may send another request
AccountTaken(c) ==
  /\ calls[c].pc = "idle"
  /\ calls[c].response # NoResponse
  /\ served < MaxServed
  /\ served' = served + 1
  /\ calls' = [calls EXCEPT ![c] = NoCall]
  /\ UNCHANGED <<env, log, failed, users, client>>
  /\ UNCHANGED handlerVars

NextAccounts ==
  \E c \in Callers :
    \/ RoleRequest(c)
    \/ RoleFind(c)
    \/ RoleUpdate(c)
    \/ LoginRequest(c)
    \/ LoginFind(c)
    \/ LoginCompare(c)
    \/ AccountTaken(c)

SpecAccounts == InitAccounts /\ [][NextAccounts]_vars

(***************************************************************************)
(* The browser session of the frontend: the auth-token cookie, the user in *)
(* localStorage and window.location, under the login page, logout() and    *)
(* the response interceptor of the api client.                             *)
(***************************************************************************)
Accounts ==
  {[id |-> 1, email |-> <<"a", "@", "x">>, role |-> "USER"],
   [id |-> 2, email |-> <<"b", "@", "x">>, role |-> "ADMIN"]}

Pages == {"/dashboard", "/conflicts"}

\* the statuses a request of the api client is answered with
Statuses == {200, 401, 404, 500}

\* useForm defaultValues of the conflicts page
defaultValues ==
  [search |-> <<>>, country |-> <<>>, region |-> <<>>, eventType |-> <<>>, startDate |-> <<>>,
   endDate |-> <<>>, sortBy |-> "date", sortOrder |-> "desc"]

FilterNames == {"country", "region", "eventType", "startDate", "endDate"}

\* queryParams: page, limit, sortBy, sortOrder and the truthy filters
queryParams(page, filters) ==
  [f \in {"page", "limit", "sortBy", "sortOrder"}
          \cup {n \in FilterNames : filters[n] # <<>>} |->
     CASE f = "page" -> page
       [] f = "limit" -> 10
       [] OTHER -> filters[f]]

\* the handler of the conflicts page that ran last, with the column it was
\* given and the sort it found
NoLast ==
  [op |-> "none", field |-> "", sortBy |-> "date", sortOrder |-> "desc"]

\* the columns with a clickable header
SortColumns == {"date", "country", "fatalities"}

\* the values a filter input is set to: empty, or a choice
FilterValues == {<<>>, <<"x">>}

\* useMemo: the parameters follow the page and the filters
Render(cl) == [cl EXCEPT !.params = queryParams(cl.page, cl.filters)]

\* handleSort without the reset of the page
handleSortKeepPage(cl, field) ==
  Render([cl EXCEPT
            !.filters = IF cl.filters.sortBy = field
                        THEN [cl.filters EXCEPT
                                !.sortOrder = IF cl.filters.sortOrder = "asc"
                                              THEN "desc" ELSE "asc"]
                        ELSE [cl.filters EXCEPT !.sortBy = field,
                                                !.sortOrder = "desc"],
            !.last = [op |-> "handleSort", field |-> field,
                      sortBy |-> cl.filters.sortBy,
                      sortOrder |-> cl.filters.sortOrder]])

handleSort(cl, field) ==
  Render([cl EXCEPT
            !.filters = IF cl.filters.sortBy = field
                        THEN [cl.filters EXCEPT
                                !.sortOrder = IF cl.filters.sortOrder = "asc"
                                              THEN "desc" ELSE "asc"]
                        ELSE [cl.filters EXCEPT !.sortBy = field,
                                                !.sortOrder = "desc"],
            !.page = 1,
            !.last = [op |-> "handleSort", field |-> field,
                      sortBy |-> cl.filters.sortBy,
                      sortOrder |-> cl.filters.sortOrder]])

\* clearFilters: reset() and setPage(1)
clearFilters(cl) ==
  Render([cl EXCEPT !.filters = defaultValues, !.page = 1,
                    !.last = [NoLast EXCEPT
                                !.op = "clearFilters",
                                !.sortBy = cl.filters.sortBy,
                                !.sortOrder = cl.filters.sortOrder]])

SignedOut ==
  [cookie |-> None, user |-> None, href |-> "/login", expired |-> FALSE,
   status |-> 0, page |-> 1, filters |-> defaultValues, last |-> NoLast,
   params |-> queryParams(1, defaultValues)]

InitClient ==
  /\ HandlersIdle
  /\ env = "production"
  /\ log = <<>>
  /\ failed = {}
  /\ served = 0
  /\ users = {}
  /\ calls = <<>>
  /\ client = SignedOut

\* Cookies.remove('auth-token')
removeAuthToken(cl) == [cl EXCEPT !.cookie = None]

\* localStorage.removeItem('user')
removeUser(cl) == [cl EXCEPT !.user = None]

\* logout(): removeAuthToken(); removeUser(); window.location.href = '/login'
logout(cl) ==
  [removeUser(removeAuthToken(cl)) EXCEPT
     !.href = "/login", !.page = 1, !.filters = defaultValues,
     !.last = NoLast, !.params = queryParams(1, defaultValues)]

\* api.interceptors.response: on 401, Cookies.remove and the redirect
OnResponse(cl, status) ==
  IF status = 401
  THEN [removeAuthToken(cl) EXCEPT !.href = "/login", !.status = status,
                                   !.page = 1, !.filters = defaultValues,
                                   !.last = NoLast,
                                   !.params = queryParams(1, defaultValues)]
  ELSE [cl EXCEPT !.status = status]

SessionVars == <<env, log, failed, served, users, calls>>

\* loginMutation onSuccess: setAuthToken, setUser, router.push('/dashboard')
SignIn ==
  \E u \in Accounts :
    /\ client.href = "/login"
    /\ client' = [SignedOut EXCEPT
                    !.cookie = Some(generateToken(
                                 [userId |-> u.id, email |-> u.email,
                                  role |-> u.role])),
                    !.user = Some(u), !.href = "/dashboard", !.status = 200]
    /\ UNCHANGED SessionVars
    /\ UNCHANGED handlerVars

\* the user opens another page of the application
Navigate ==
  \E p \in Pages :
    /\ client.href # p
    /\ client' = [client EXCEPT !.href = p, !.status = 0, !.page = 1,
                                 !.filters = defaultValues, !.last = NoLast,
                                 !.params = queryParams(1, defaultValues)]
    /\ UNCHANGED SessionVars
    /\ UNCHANGED handlerVars

\* expiresIn: '24h' has passed since the token was signed
TokenExpires ==
  /\ client.cookie # None
  /\ ~client.expired
  /\ client' = [client EXCEPT !.expired = TRUE]
  /\ UNCHANGED SessionVars
  /\ UNCHANGED handlerVars

\* a request of the page in view is answered; an expired or missing token
\* is answered 401
ApiAnswered ==
  \E status \in Statuses :
    /\ client.href # "/login"
    /\ (client.expired \/ client.cookie = None) => status = 401
    /\ client' = OnResponse(client, status)
    /\ UNCHANGED SessionVars
    /\ UNCHANGED handlerVars

\* the user signs out
SignOut ==
  /\ client.cookie # None
  /\ client' = [logout(client) EXCEPT !.status = 0, !.expired = FALSE]
  /\ UNCHANGED SessionVars
  /\ UNCHANGED handlerVars

\* a click on the header of a sortable column
HandleSort ==
  \E field \in SortColumns :
    /\ client.href = "/conflicts"
    /\ client' = handleSort(client, field)
    /\ UNCHANGED SessionVars
    /\ UNCHANGED handlerVars

\* the Clear Filters button
ClearFilters ==
  /\ client.href = "/conflicts"
  /\ client' = clearFilters(client)
  /\ UNCHANGED SessionVars
  /\ UNCHANGED handlerVars

\* a filter input registered with the form is changed
ChangeFilter ==
  \E n \in FilterNames, v \in FilterValues :
    /\ client.href = "/conflicts"
    /\ client.filters[n] # v
    /\ client' = Render([client EXCEPT !.filters[n] = v,
                                       !.last = [NoLast EXCEPT !.op = "filter"]])
    /\ UNCHANGED SessionVars
    /\ UNCHANGED handlerVars

\* the Previous and Next buttons: setPage(page - 1), setPage(page + 1)
SetPage ==
  \E d \in {-1, 1} :
    /\ client.href = "/conflicts"
    /\ client.page + d \in 1..MaxPage
    /\ client' = Render([client EXCEPT !.page = client.page + d,
                                       !.last = [NoLast EXCEPT !.op = "setPage"]])
    /\ UNCHANGED SessionVars
    /\ UNCHANGED handlerVars

NextClient ==
  \/ SignIn
  \/ Navigate
  \/ TokenExpires
  \/ ApiAnswered
  \/ SignOut
  \/ HandleSort
  \/ ClearFilters
  \/ ChangeFilter
  \/ SetPage

SpecClient == InitClient /\ [][NextClient]_vars

(***************************************************************************)
(* Properties of the statistics.                                           *)
(***************************************************************************)
StatsDone == pc = "idle" /\ response.status = 200 /\ ops["count"] # None

\* what a record adds to the total: its fatalities, or nothing when absent
Contribution(r) == IF r.fatalities = Null THEN 0 ELSE r.fatalities

RECURSIVE Total(_)
Total(S) ==
  IF S = {} THEN 0
  ELSE LET r == CHOOSE r \in S : TRUE IN Contribution(r) + Total(S \ {r})

\* C14: in a stats response totalFatalities is the sum of fatalities over
\* every record of the table the sum read, an absent value adding 0 (0 for
\* an empty table), and totalConflicts is the number of records of the table
\* the count read, those without fatalities included, whatever the query
\* string of the request.
C14_TotalsOverEveryRecord ==
  StatsDone =>
    /\ response.totalFatalities = Total(seen["sum"])
    /\ response.totalConflicts = Cardinality(seen["count"])

C14_Witness ==
  /\ StatsDone
  /\ query.region # None
  /\ \E r \in seen["sum"] : r.fatalities = Null
  /\ \E r \in seen["count"] : r.fatalities = Null
  /\ response.totalFatalities = 5
  /\ response.totalConflicts = 2

C14_WitnessEmpty ==
  /\ StatsDone
  /\ seen["sum"] = {}
  /\ response.totalFatalities = 0


\* C15: in a stats response computed at time now, recentConflicts is the
\* number of records dated now - 30 days or later: a record dated exactly
\* now - 30 days is counted, and so is any record dated after now.
C15_RecentIsInclusiveThirtyDays ==
  StatsDone =>
    response.recentConflicts =
      Cardinality(seen["recent"])
        - Cardinality({r \in seen["recent"] : r.date + ThirtyDays < now})

C15_Witness ==
  /\ StatsDone
  /\ \E r \in seen["recent"] : r.date + ThirtyDays = now
  /\ \E r \in seen["recent"] : r.date + ThirtyDays < now
  /\ response.recentConflicts = 1

C15_WitnessNoUpperBound ==
  /\ StatsDone
  /\ \E r \in seen["recent"] : r.date > now
  /\ response.recentConflicts = Cardinality(seen["recent"])

\* the entries of g, read as counts of the column col over the records S
OnePerValue(g, S, col) ==
  /\ \A r \in S : Cardinality({i \in DOMAIN g : g[i][col] = r[col]}) = 1
  /\ \A i \in DOMAIN g :
       /\ \E r \in S : r[col] = g[i][col]
       /\ g[i].count = Cardinality({r \in S : r[col] = g[i][col]})
       /\ g[i].count >= 1

\* C16: in a stats response conflictsByRegion has exactly one entry for each
\* region carried by a record of the table the grouping read and none for
\* any other region, each count being the number of records of that region
\* and at least 1; likewise conflictsByEventType and eventType.
C16_OneEntryPerPresentValue ==
  StatsDone =>
    /\ OnePerValue(response.conflictsByRegion, seen["byRegion"], "region")
    /\ OnePerValue(response.conflictsByEventType, seen["byEventType"],
                   "eventType")

C16_Witness ==
  /\ StatsDone
  /\ \A o \in StatsOps : seen[o] = store
  /\ Cardinality(store) = 2
  /\ Len(response.conflictsByRegion) = 2
  /\ Len(response.conflictsByEventType) = 1
  /\ response.conflictsByEventType[1].count = 2


(***************************************************************************)
(* Properties of the export.                                               *)
(***************************************************************************)
ExportDone == pc = "idle" /\ response.status = 200 /\ ops["findMany"] # None

IsCsv == response.contentType = "text/csv"

\* the pieces of text between occurrences of the character c
RECURSIVE Split(_, _)
Split(text, c) ==
  IF \A i \in DOMAIN text : text[i] # c THEN <<text>>
  ELSE LET k == CHOOSE k \in DOMAIN text :
                  text[k] = c /\ \A j \in 1..(k - 1) : text[j] # c
       IN <<SubSeq(text, 1, k - 1)>> \o Split(SubSeq(text, k + 1, Len(text)), c)

\* the lines after the header line; a body that ends with the header's line
\* break has none
DataLines(body) ==
  LET L == Tail(Split(body, "\n")) IN IF L = << <<>> >> THEN <<>> ELSE L

\* the ids of the exported records, in the order of the response
ExportedIds(resp) ==
  IF resp.contentType = "text/csv"
  THEN LET L == DataLines(resp.body)
       IN [i \in 1..Len(L) |-> Number(Split(L[i], ",")[1])]
  ELSE [i \in 1..Len(resp.data) |-> resp.data[i].id]

RecordOf(S, id) == CHOOSE r \in S : r.id = id

\* C17: an export response, JSON or CSV, lists every record of the table
\* the query read, each once, in descending date order, whatever filter,
\* page and limit the request carried; in the JSON form totalRecords is the
\* number of records in data.
C17_ExportCoversEveryRecord ==
  ExportDone =>
    LET ids == ExportedIds(response)
        S == seen["findMany"]
    IN /\ Len(ids) = Cardinality(S)
       /\ {ids[i] : i \in DOMAIN ids} = {r.id : r \in S}
       /\ \A i, j \in DOMAIN ids :
            i < j => RecordOf(S, ids[i]).date >= RecordOf(S, ids[j]).date
       /\ ~IsCsv =>
            /\ response.totalRecords = Len(response.data)
            /\ \A i \in DOMAIN ids : response.data[i] = RecordOf(S, ids[i])

C17_Witness ==
  /\ ExportDone
  /\ IsCsv
  /\ query.region = Some(<<"W">>)
  /\ query.page = Some(NumText(2))
  /\ query.limit = Some(NumText(1))
  /\ Cardinality(seen["findMany"]) = 2
  /\ \E r \in seen["findMany"] : r.region = <<"M", "E">>

C17_WitnessJson ==
  /\ ExportDone
  /\ ~IsCsv
  /\ query.format = Some("xml")
  /\ query.region = Some(<<"W">>)
  /\ response.totalRecords = 2

HeaderLine ==
  <<"I", "D",
     ",", "T", "i", "t", "l", "e",
     ",", "C", "o", "u", "n", "t", "r", "y",
     ",", "R", "e", "g", "i", "o", "n",
     ",", "E", "v", "e", "n", "t", " ", "T", "y", "p", "e",
     ",", "D", "a", "t", "e",
     ",", "F", "a", "t", "a", "l", "i", "t", "i", "e", "s",
     ",", "L", "a", "t", "i", "t", "u", "d", "e",
     ",", "L", "o", "n", "g", "i", "t", "u", "d", "e",
     ",", "S", "o", "u", "r", "c", "e">>

\* the row the export format prescribes for record r
ExpectedRow(r) ==
  NumText(r.id) \o <<",">> \o EscapeTitle(r.title) \o <<",">> \o r.country
    \o <<",">> \o r.region \o <<",">> \o r.eventType
    \o <<",">> \o DateText(r.date \div TicksPerDay)
    \o <<",">> \o (IF r.fatalities = Null THEN <<"0">> ELSE NumText(r.fatalities))
    \o <<",">> \o NumText(r.latitude) \o <<",">> \o NumText(r.longitude)
    \o <<",">> \o r.source

\* C19: the CSV export is the header line ID, Title, Country, Region,
\* Event Type, Date, Fatalities, Latitude, Longitude, Source followed by one
\* line per record, each line carrying the record's fields in that order,
\* Date as the day of the record's UTC date and Fatalities as 0 when the
\* record has none.
C19_CsvHeaderAndRows ==
  (ExportDone /\ IsCsv) =>
    LET L == DataLines(response.body)
        ids == ExportedIds(response)
        S == seen["findMany"]
    IN /\ Split(response.body, "\n")[1] = HeaderLine
       /\ Len(L) = Cardinality(S)
       /\ \A i, j \in DOMAIN ids : i # j => ids[i] # ids[j]
       /\ \A i \in DOMAIN L :
            /\ \E r \in S : r.id = ids[i]
            /\ L[i] = ExpectedRow(RecordOf(S, ids[i]))

C19_Witness ==
  /\ ExportDone
  /\ IsCsv
  /\ Cardinality(seen["findMany"]) = 2
  /\ \E r \in seen["findMany"] :
       r.fatalities = Null /\ r.date % TicksPerDay # 0
  /\ \E r \in seen["findMany"] : r.fatalities = 5


(***************************************************************************)
(* Properties of the Title field.                                          *)
(***************************************************************************)
QuotesIn(t) == Cardinality({k \in DOMAIN t : t[k] = "\""})

\* strip the outer quotes, then replace each doubled quote by one
RECURSIVE Undouble(_)
Undouble(t) ==
  IF t = <<>> THEN <<>>
  ELSE IF Len(t) >= 2 /\ t[1] = "\"" /\ t[2] = "\""
       THEN <<"\"">> \o Undouble(SubSeq(t, 3, Len(t)))
  ELSE <<t[1]>> \o Undouble(Tail(t))

Unescape(f) == Undouble(SubSeq(f, 2, Len(f) - 1))

\* C18: for every title the CSV Title field opens and closes with a double
\* quote, carries between them the title's characters in order with each
\* double quote written twice, and unescaping it (outer quotes stripped,
\* each doubled quote replaced by one) gives the title back.
C18_TitleEscapeRoundTrip ==
  csvField # None =>
    LET f == csvField[1]
        at(k) == 1 + k + QuotesIn(SubSeq(title, 1, k - 1))
    IN /\ Len(f) = Len(title) + QuotesIn(title) + 2
       /\ f[1] = "\""
       /\ f[Len(f)] = "\""
       /\ \A k \in DOMAIN title :
            /\ f[at(k)] = title[k]
            /\ title[k] = "\"" => f[at(k) + 1] = "\""
       /\ Unescape(f) = title

C18_Witness ==
  /\ csvField # None
  /\ title = <<"\"", "\"", ",">>
  /\ csvField[1] = <<"\"", "\"", "\"", "\"", "\"", ",", "\"">>


(***************************************************************************)
(* Properties of the per-region query.                                     *)
(***************************************************************************)
RegionDone == pc = "idle" /\ response.status = 200 /\ ops["aggregate"] # None

\* the records of S whose region contains the text, letter case ignored
InRegion(S, text) == {r \in S : Occurs(text, r.region)}

\* C20: the per-region response has totalConflicts equal to the number of
\* records whose region contains the given text case-insensitively; its
\* averageFatalities is the integer nearest to the average of their
\* fatalities values (23, 15, 27 give 22), and when no record matches
\* averageFatalities and totalFatalities are both 0.
C20_RegionAverageRounded ==
  RegionDone =>
    LET M == InRegion(seen["aggregate"], response.region)
        V == {r \in M : r.fatalities # Null}
        n == Cardinality(V)
        a == response.stats.averageFatalities
    IN /\ response.stats.totalConflicts = Cardinality(M)
       /\ M = {} => (a = 0 /\ response.stats.totalFatalities = 0)
       /\ V = {} => a = 0
       /\ V # {} =>
            /\ 2 * n * a - 2 * Total(V) <= n
            /\ 2 * Total(V) - 2 * n * a <= n

C20_Witness ==
  /\ RegionDone
  /\ response.region = <<"m", "e">>
  /\ {r.fatalities : r \in seen["aggregate"]} = {23, 15, 27}
  /\ \A r \in seen["aggregate"] : r.region = <<"M", "E">>
  /\ response.stats.totalConflicts = 3
  /\ response.stats.averageFatalities = 22

C20_WitnessNoMatch ==
  /\ RegionDone
  /\ response.region = <<"Z">>
  /\ seen["aggregate"] # {}
  /\ response.stats.totalConflicts = 0
  /\ response.stats.averageFatalities = 0
  /\ response.stats.totalFatalities = 0


(***************************************************************************)
(* Properties of a request whose store operation fails.                    *)
(***************************************************************************)
FailureAnswered == pc = "idle" /\ failed # {} /\ response # NoResponse

Details ==
  {e.message : e \in StoreErrors} \cup {e.stack : e \in StoreErrors}

\* the body says something of the failure beyond the generic text
Exposes(body) ==
  \/ ~(DOMAIN body \subseteq {"status", "statusCode", "message"})
  \/ body.message \in Details

Logged == Len(log) > 0 /\ log[Len(log)].error \in Details
                       /\ log[Len(log)].stack \in Details

\* C21 as stated: a failed store operation is answered with a 500 whose
\* body carries no detail of the failure, in every environment, and the
\* detail is logged.
C21_NoInternalDetailAlways ==
  FailureAnswered =>
    /\ response.status = 500
    /\ ~Exposes(response.body)
    /\ Logged

\* C21: a failed store operation is answered with status 500 and the
\* message Internal Server Error, and the error's message and stack are
\* logged; the body carries no detail of the failure unless NODE_ENV is
\* development, where it carries the stack that was logged.
C21_NoInternalDetailOutsideDevelopment ==
  FailureAnswered =>
    /\ response.status = 500
    /\ response.body.statusCode = 500
    /\ response.body.message = "Internal Server Error"
    /\ Logged
    /\ env # "development" => ~Exposes(response.body)
    /\ env = "development" =>
         /\ DOMAIN response.body = {"status", "statusCode", "message", "stack"}
         /\ response.body.stack = log[Len(log)].stack

C21_Witness ==
  /\ FailureAnswered
  /\ env = "production"
  /\ "recent" \in failed
  /\ ops["count"] # None
  /\ store # {}

\* the result fields a success response carries
ResultFields ==
  {"conflicts", "pagination", "totalConflicts", "totalFatalities",
   "recentConflicts", "conflictsByRegion", "conflictsByEventType",
   "exportDate", "totalRecords", "data", "contentType"}

Settled(o) ==
  CASE pc # "idle" -> FALSE
    [] "conflicts" \in DOMAIN response ->
         IF o = "findMany" THEN fetched # None ELSE counted # None
    [] OTHER -> ops[o] # None

OpsOf(resp) ==
  CASE "conflicts" \in DOMAIN resp -> {"findMany", "count"}
    [] "totalConflicts" \in DOMAIN resp -> StatsOps
    [] OTHER -> {"findMany"}

AllOrNothing ==
  (pc = "idle" /\ response # NoResponse /\ response.status # 400) =>
    /\ response.status = 200 =>
         /\ failed = {}
         /\ log = <<>>
         /\ \A o \in OpsOf(response) : Settled(o)
    /\ failed # {} =>
         /\ response.status = 500
         /\ DOMAIN response \cap ResultFields = {}
         /\ Cardinality(failed) = 1
         /\ Len(log) = 1
         /\ \A o \in failed : ops[o] = None
         /\ "findMany" \in failed => fetched = None
         /\ "count" \in failed => counted = None
    /\ response.status \in {200, 500}
    /\ response.status = 500 => failed # {}

\* C22: a list, stats or export request ends in one response: a success
\* response only when every store operation of the request returned, and an
\* error response without result fields as soon as one of them failed, the
\* failed operation not being run again; once sent, the response is not
\* followed by another.
C22_AllOrNothingOneResponse ==
  [][AllOrNothing' /\ (response # NoResponse => response' = response)]_vars

C22_Witness ==
  /\ pc = "idle"
  /\ failed = {"count"}
  /\ fetched # None
  /\ fetched[1] # <<>>
  /\ response.status = 500


(***************************************************************************)
(* Properties of the read-only routes taken together.                      *)
(***************************************************************************)
Answered == pc = "idle" /\ response # NoResponse

IsById == "params" \in DOMAIN query /\ "id" \in DOMAIN query.params

IsRegion == "params" \in DOMAIN query /\ "region" \in DOMAIN query.params

IsExport == "format" \in DOMAIN query

ByIdAnswer ==
  IF \E r \in store : r.id = query.params.id
  THEN response = [status |-> 200,
                   conflict |-> RecordOf(store, query.params.id)]
  ELSE response.status = 404

RegionAnswer ==
  LET M == InRegion(store, query.params.region)
      c == response.conflicts
  IN /\ response.region = query.params.region
     /\ Len(c) = Cardinality(M)
     /\ {c[i] : i \in DOMAIN c} = M
     /\ \A i, j \in DOMAIN c : i < j => c[i].date >= c[j].date
     /\ response.stats.totalConflicts = Cardinality(M)
     /\ response.stats.totalFatalities = Total(M)

ExportAnswer ==
  LET ids == ExportedIds(response)
  IN /\ Len(ids) = Cardinality(store)
     /\ {ids[i] : i \in DOMAIN ids} = {r.id : r \in store}
     /\ ~IsCsv => response.exportDate = ToISOString(now)

StatsAnswer ==
  /\ response.totalConflicts = Cardinality(store)
  /\ response.totalFatalities = Total(store)
  /\ response.recentConflicts =
       Cardinality({r \in store : r.date >= now - ThirtyDays})
  /\ OnePerValue(response.conflictsByRegion, store, "region")
  /\ OnePerValue(response.conflictsByEventType, store, "eventType")

ListAnswer ==
  IF response.status = 400 THEN QueryErrors(query) # {}
  ELSE /\ QueryErrors(query) = {}
       /\ response.pagination.total = Cardinality(Admitted(query, store))
       /\ response.conflicts \in
            FindMany(store, BuildWhere(query), SkipOf(query), LimitOf(query),
                     SortByOf(query), SortOrderOf(query))

AnswerFromStore ==
  Answered =>
    CASE IsById -> ByIdAnswer
      [] IsRegion -> RegionAnswer
      [] IsExport -> ExportAnswer
      [] "totalConflicts" \in DOMAIN response -> StatsAnswer
      [] OTHER -> ListAnswer

Finished(c) == calls[c].pc = "idle" /\ calls[c].response # NoResponse

\* C24: at most one user exists per email, at most one register request
\* per email is answered 201 unless the email was stored before, and every
\* valid register request that is not answered 201 (its email being taken)
\* is answered 409.
C24_TakenEmailAnswered409 ==
  /\ \A u, v \in users : u.email = v.email => u = v
  /\ \A c \in Callers :
       (Finished(c) /\ RegisterErrors(calls[c].body) = <<>>) =>
          /\ calls[c].response.status \in {201, 409}
          /\ calls[c].response.status = 201 =>
               \A d \in Callers \ {c} :
                 (Finished(d) /\ d # c /\ calls[d].body.email = calls[c].body.email)
                    => calls[d].response.status # 201


(***************************************************************************)
(* Properties of the browser session.                                      *)
(***************************************************************************)
Session(cl) == [cookie |-> cl.cookie, user |-> cl.user, href |-> cl.href]

\* C25: once a request made with an expired token has been answered 401,
\* the client is in the session state logout() leaves: no auth-token
\* cookie, no user in localStorage, location /login.
C25_ExpiredTokenLogsOut ==
  (client.status = 401 /\ client.expired) =>
     /\ Session(client) = Session(logout(client))
     /\ Session(client) = [cookie |-> None, user |-> None, href |-> "/login"]

\* a handler of the conflicts page has just run
Sorted == client.href = "/conflicts" /\ client.last.op = "handleSort"
Cleared == client.href = "/conflicts" /\ client.last.op = "clearFilters"

\* the sort handleSort leaves, from the sort it found and its column
SortAfter(last) ==
  IF last.sortBy = last.field
  THEN [sortBy |-> last.sortBy,
        sortOrder |-> IF last.sortOrder = "asc" THEN "desc" ELSE "asc"]
  ELSE [sortBy |-> last.field, sortOrder |-> "desc"]

\* the parameters carry the page, limit 10, the sort of the form, and
\* exactly the filters that are not empty, each with its value
ParamsCarry(cl) ==
  /\ DOMAIN cl.params = {"page", "limit", "sortBy", "sortOrder"}
                           \cup {n \in FilterNames : cl.filters[n] # <<>>}
  /\ cl.params["page"] = cl.page
  /\ cl.params["limit"] = 10
  /\ cl.params["sortBy"] = cl.filters.sortBy
  /\ cl.params["sortOrder"] = cl.filters.sortOrder
  /\ \A n \in DOMAIN cl.params \cap FilterNames :
        cl.params[n] = cl.filters[n]

\* C30: after handleSort(field) on the current sort column sortOrder is
\* flipped and sortBy kept; on another column sortBy is that column and
\* sortOrder is desc; after handleSort and after clearFilters the page is 1;
\* and the request parameters built afterwards carry that sortBy, sortOrder
\* and page, limit 10, and only the non-empty filters.
C30_SortResetsPageAndParams ==
  /\ Sorted =>
        /\ client.filters.sortBy = SortAfter(client.last).sortBy
        /\ client.filters.sortOrder = SortAfter(client.last).sortOrder
        /\ client.page = 1
        /\ ParamsCarry(client)
  /\ Cleared =>
        /\ client.page = 1
        /\ ParamsCarry(client)

\* the current column was clicked on a later page with a filter set and one
\* left empty: the order flipped to asc
C30_Witness ==
  /\ Sorted
  /\ client.last.field = client.last.sortBy
  /\ client.filters.sortOrder = "asc"
  /\ client.filters.country # <<>>
  /\ client.filters.region = <<>>

\* the same with another column clicked
C30_WitnessOtherColumn ==
  /\ Sorted
  /\ client.last.field # client.last.sortBy
  /\ client.last.sortOrder = "asc"
  /\ client.filters.country # <<>>

\* the records that matched the request's filter when its fetch ran
MatchedAtFetch == Rows(fetchStore, BuildWhere(query))

\* C26: the count and the fetch of a list request each read the table as
\* it is when they run, in either order and with writes allowed between
\* them: total is the number of matches in the table the count read and
\* the records are matches of the table the fetch read, so total can
\* differ from the number matched at the fetch when a write fell between
\* them; a response whose two operations read the same table, the one
\* after such a response included, has total equal to that number.
C26_CountAndFetchReadTheirOwnTable ==
  Done =>
    /\ response.pagination.total = Cardinality(Rows(countStore, BuildWhere(query)))
    /\ Returned \subseteq MatchedAtFetch
    /\ fetchStore = countStore
          => response.pagination.total = Cardinality(MatchedAtFetch)

\* a write fell between the two operations and total is not the number of
\* records that matched when the fetch ran
C26_Witness ==
  /\ Done
  /\ fetchStore # countStore
  /\ response.pagination.total # Cardinality(MatchedAtFetch)
  /\ Len(response.conflicts) > 0

\* the same query asked again after such a response, with no write between
\* its two operations
C26_WitnessNextResponse ==
  /\ Done
  /\ prev.set
  /\ prev.stale
  /\ fetchStore = countStore
  /\ Len(response.conflicts) > 0

\* the counts of a grouping, added up
RECURSIVE SumCounts(_)
SumCounts(g) ==
  IF g = <<>> THEN 0 ELSE g[1].count + SumCounts(Tail(g))

\* no write took effect between the four counting queries of the request
CountsReadOneTable ==
  /\ seen["byRegion"] = seen["count"]
  /\ seen["byEventType"] = seen["count"]
  /\ seen["recent"] = seen["count"]

\* C27: in a stats response whose queries read an unchanged table, the
\* counts of conflictsByRegion add up to totalConflicts, so do the counts
\* of conflictsByEventType, and recentConflicts <= totalConflicts.
C27_CountsAddUpOnUnchangedStore ==
  (StatsDone /\ CountsReadOneTable) =>
    /\ SumCounts(response.conflictsByRegion) = response.totalConflicts
    /\ SumCounts(response.conflictsByEventType) = response.totalConflicts
    /\ response.recentConflicts <= response.totalConflicts

\* an unchanged table with two regions, of which one record is recent
C27_Witness ==
  /\ StatsDone
  /\ CountsReadOneTable
  /\ Len(response.conflictsByRegion) = 2
  /\ response.totalConflicts = 2
  /\ response.recentConflicts = 1

\* with a write between the queries the equalities can fail: the counts by
\* region do not add up to totalConflicts, or recentConflicts exceeds it
C27_WitnessWriteBetween ==
  /\ StatsDone
  /\ ~CountsReadOneTable
  /\ SumCounts(response.conflictsByRegion) # response.totalConflicts
  /\ response.recentConflicts > response.totalConflicts

(***************************************************************************)
(* Properties of the user routes.                                          *)
(***************************************************************************)
RoleAnswered(c) == Finished(c) /\ calls[c].kind = "role"

\* the status a role request ends with: the role is checked before the id
RoleStatusRight(c) ==
  calls[c].response.status =
    IF ~RoleValid(calls[c].role) THEN 400
    ELSE IF \A u \in users : u.id # calls[c].id THEN 404
    ELSE 200

\* users' is users with the role of the user id set to role and nothing
\* else touched
OnlyRoleOf(id, role) ==
  /\ \A u \in users : u.id # id => u \in users'
  /\ \A v \in users' : v.id # id => v \in users
  /\ \A u \in users : u.id = id =>
        \E v \in users' :
          /\ v.id = id
          /\ v.role = role
          /\ v.email = u.email
          /\ v.password = u.password
  /\ Cardinality(users') = Cardinality(users)

\* what the step in which caller c's role request is answered does to the
\* users
RoleStep(c) ==
  (~Finished(c) /\ RoleAnswered(c)') =>
     IF calls'[c].response.status = 200
     THEN OnlyRoleOf(calls'[c].id, calls'[c].role[1])
     ELSE users' = users

C28_WitnessNotFound ==
  \E c \in Callers :
    /\ RoleAnswered(c)
    /\ calls[c].response.status = 404
    /\ calls[c].id = 3

\* caller c's login passed validation and was refused
LoginFailed(c) ==
  /\ Finished(c)
  /\ calls[c].kind = "login"
  /\ LoginErrors(calls[c].body) = <<>>
  /\ calls[c].response.status # 200

\* the email of c's login belongs to a user
Registered(c) == \E u \in users : u.email = calls[c].body.email

\* the credentials of c's login are those of a user
RightCredentials(c) ==
  \E u \in users :
    /\ u.email = calls[c].body.email
    /\ Compare(calls[c].body.password, u.password)

\* C29: a valid login request is refused exactly when its email is unknown
\* or its password wrong; every refusal has status 401 and no token, and
\* any two refusals, one for an unknown email and one for a wrong password
\* included, have the same status and the same body.
C29_FailedLoginsLookAlike ==
  /\ \A c \in Callers :
       (/\ Finished(c)
        /\ calls[c].kind = "login"
        /\ LoginErrors(calls[c].body) = <<>>)
          => (calls[c].response.status = 200 <=> RightCredentials(c))
  /\ \A c \in Callers :
       LoginFailed(c) =>
          /\ calls[c].response.status = 401
          /\ "token" \notin DOMAIN calls[c].response
  /\ \A c, d \in Callers :
       (LoginFailed(c) /\ LoginFailed(d))
          => calls[c].response = calls[d].response

\* one refusal for an unknown email and one for a wrong password, together
C29_Witness ==
  \E c, d \in Callers :
    /\ LoginFailed(c)
    /\ ~Registered(c)
    /\ LoginFailed(d)
    /\ Registered(d)

====
